---- MODULE Spec2Model ----
(***************************************************************************)
(* Creek: voice-driven live-document engine (src-tauri).                   *)
(*                                                                         *)
(* Strings are sequences of one-character strings.  The two keywords of    *)
(* the diff grammar, SEARCH and REPLACE, are single tokens: the code only  *)
(* ever asks whether a line contains the whole keyword.                    *)
(***************************************************************************)
EXTENDS Integers, Sequences, FiniteSets, TLC

VARIABLES
    doc,        \* DocumentService.state: [content, version]
    last_op,    \* the last DocumentService call: its name, input, the state before it and what it returned
    ops,        \* number of DocumentService calls made so far
    asr_cancellation_token,         \* run_pipeline: TRUE while Some(token)
    processing_cancellation_token,  \* run_pipeline: 0 for None, else the turn-task whose token it holds
    is_paused,                      \* run_pipeline
    current_recording_id,           \* run_pipeline: "none" for None
    holdback_deadline,              \* run_pipeline: TRUE while Some(deadline)
    pending_transcript,             \* run_pipeline
    tasks,                          \* the turn-tasks spawned so far, in spawn order
    last_event,                     \* payload of the last document-update event
    cmds,                           \* number of frontend commands handled so far
    edit,                           \* EditAgent::execute: the locals of one run
    planner,                        \* process_transcript: router 1 and the plan it leads to
    turn,                           \* process_transcript: the step loop, its blackboard and the shared history
    repo,                           \* the recording directory, the persisted state and the commit tasks
    holdback,                       \* run_pipeline: the holdback timer and the pending buffer, with time
    upd,                            \* one turn with the state store's todos and the tasks of update_state_and_git
    hist,                           \* the history store's commits and one UndoAgent::execute
    agg,                            \* SpeechAggregator.buf with the fragments pushed and the pieces emitted
    rt,                             \* one (search, replace) pair, the block written from it and what parse_all returns
    grep,                           \* GrepAgent::execute: the locals of one run
    lp,                             \* DiffParser fed one response line by line, and the patches it has emitted
    proc,                           \* process_transcript: one turn, the agent-status events and the chat history
    naming,                         \* the recording's display name and the title generators started for it
    sse                             \* stream_completion: the byte stream, its chunks and the deltas yielded

docVars == <<doc, last_op, ops>>
pipeVars == <<asr_cancellation_token, processing_cancellation_token, is_paused,
              current_recording_id, holdback_deadline, pending_transcript,
              tasks, last_event, cmds>>
vars == <<doc, last_op, ops, asr_cancellation_token, processing_cancellation_token,
          is_paused, current_recording_id, holdback_deadline, pending_transcript,
          tasks, last_event, cmds, edit, planner, turn, repo, holdback, upd, hist, agg, rt, grep, lp,
          proc, naming, sse>>
tailVars == <<proc, naming, sse>>
moreVars == <<grep, lp, tailVars>>
extVars == <<upd, hist, agg, rt, moreVars>>
auxVars == <<planner, turn, repo, holdback, extVars>>

(***************************************************************************)
(* Bounds                                                                  *)
(***************************************************************************)

\* DocumentService calls in one behaviour of SpecDoc
MaxOps == 2
\* lines in the SEARCH body and in the REPLACE body of a generated block
MaxBodyLines == 1

(***************************************************************************)
(* Text primitives (Rust str methods used by the code)                     *)
(***************************************************************************)

\* char::is_whitespace for the characters that occur here
IsWs(c) == c \in {" ", "\t", "\n", "\r"}

RECURSIVE TrimStart(_)
\* str::trim_start
TrimStart(s) ==
    IF s = <<>> THEN <<>>
    ELSE IF IsWs(Head(s)) THEN TrimStart(Tail(s)) ELSE s

RECURSIVE TrimEnd(_)
\* str::trim_end
TrimEnd(s) ==
    IF s = <<>> THEN <<>>
    ELSE IF IsWs(s[Len(s)]) THEN TrimEnd(SubSeq(s, 1, Len(s) - 1)) ELSE s

\* str::trim
Trim(s) == TrimEnd(TrimStart(s))

\* str::contains(&str)
Contains(s, sub) ==
    \E i \in 0..(Len(s) - Len(sub)) : \A k \in 1..Len(sub) : s[i + k] = sub[k]

\* whether sub occurs in s at the 0-based offset i
OccursAt(s, sub, i) ==
    /\ i + Len(sub) <= Len(s)
    /\ \A k \in 1..Len(sub) : s[i + k] = sub[k]

RECURSIVE FindFrom(_, _, _)
\* the scan of str::find from the 0-based offset i
FindFrom(s, sub, i) ==
    IF i + Len(sub) > Len(s) THEN -1
    ELSE IF OccursAt(s, sub, i) THEN i ELSE FindFrom(s, sub, i + 1)

\* str::find(&str): 0-based offset of the first occurrence, -1 for None
Find(s, sub) == FindFrom(s, sub, 0)

RECURSIVE LeadingRun(_, _)
\* chars().take_while(|c| *c == ch).count()
LeadingRun(s, ch) ==
    IF s = <<>> \/ Head(s) # ch THEN 0 ELSE 1 + LeadingRun(Tail(s), ch)

RECURSIVE TrailingRun(_, _)
\* chars().rev().take_while(|c| *c == ch).count()
TrailingRun(s, ch) ==
    IF s = <<>> \/ s[Len(s)] # ch THEN 0
    ELSE 1 + TrailingRun(SubSeq(s, 1, Len(s) - 1), ch)

RECURSIVE Repeat(_, _)
\* str::repeat
Repeat(ch, n) == IF n <= 0 THEN <<>> ELSE <<ch>> \o Repeat(ch, n - 1)

RECURSIVE ReplaceFrom(_, _, _, _)
\* str::replace from the 1-based position i on: matches are taken left to
\* right and do not overlap
ReplaceFrom(s, from, to, i) ==
    IF i > Len(s) THEN <<>>
    ELSE IF i + Len(from) - 1 <= Len(s) /\ SubSeq(s, i, i + Len(from) - 1) = from
         THEN to \o ReplaceFrom(s, from, to, i + Len(from))
         ELSE <<s[i]>> \o ReplaceFrom(s, from, to, i + 1)

\* str::replace(from, to) for a non-empty pattern
ReplaceAll(s, from, to) == ReplaceFrom(s, from, to, 1)

RECURSIVE SplitInclusive(_)
\* str::split_inclusive('\n'): every piece keeps its terminator
SplitInclusive(s) ==
    IF s = <<>> THEN <<>>
    ELSE LET n == Find(s, <<"\n">>)
         IN  IF n < 0 THEN <<s>>
             ELSE <<SubSeq(s, 1, n + 1)>> \o SplitInclusive(SubSeq(s, n + 2, Len(s)))

RECURSIVE LineSpans(_, _)
\* str::lines(), each line with the 0-based offset at which it starts in the
\* text: the terminator "\n" (and a "\r" before it) is stripped, and a final
\* empty line is not produced.
LineSpans(s, off) ==
    IF s = <<>> THEN <<>>
    ELSE LET n    == Find(s, <<"\n">>)
             raw  == IF n < 0 THEN s ELSE SubSeq(s, 1, n)
             line == IF raw # <<>> /\ raw[Len(raw)] = "\r" /\ n >= 0
                     THEN SubSeq(raw, 1, Len(raw) - 1) ELSE raw
         IN  IF n < 0 THEN <<[start |-> off, text |-> line]>>
             ELSE <<[start |-> off, text |-> line]>>
                  \o LineSpans(SubSeq(s, n + 2, Len(s)), off + n + 1)

\* str::lines() without the offsets
Lines(s) == [i \in 1..Len(LineSpans(s, 0)) |-> LineSpans(s, 0)[i].text]

(***************************************************************************)
(* Diff engine: utils/diff.rs                                              *)
(***************************************************************************)

\* The canonical markers that parse_all looks for inside a REPLACE body
CanonSearchMarker  == <<"<", "<", "<", "<", "<", "<", "<", " ", "SEARCH">>
CanonReplaceMarker == <<">", ">", ">", ">", ">", ">", ">", " ", "REPLACE">>
CanonSeparator     == <<"=", "=", "=", "=", "=", "=", "=">>

\* fn is_separator_line
is_separator_line(s) ==
    LET t == Trim(s)
    IN  IF Len(t) < 3 THEN FALSE ELSE \A i \in 1..Len(t) : t[i] = "="

\* fn is_search_marker_line
is_search_marker_line(s) ==
    LET t == TrimStart(s)
    IN  Contains(t, <<"SEARCH">>) /\ LeadingRun(t, "<") >= 3

\* fn is_replace_marker_line
is_replace_marker_line(s) ==
    LET t == TrimStart(s)
    IN  Contains(t, <<"REPLACE">>) /\ LeadingRun(t, ">") >= 3

\* DiffParser::new
DiffParserNew == [state |-> "Idle", current_search |-> <<>>, current_replace |-> <<>>]

\* push_str(line) followed by push('\n') whether or not the line ends with one
PushLineAlways(buf, line) == buf \o line \o <<"\n">>

\* push_str(line) followed by push('\n') unless the line ends with one
PushLine(buf, line) ==
    IF line # <<>> /\ line[Len(line)] = "\n" THEN buf \o line ELSE buf \o line \o <<"\n">>

\* process_line with a REPLACE marker closing the block from InSearch too
process_line_closes_early(p, line) ==
    LET trimmed == Trim(line)
    IN  CASE p.state = "Idle" ->
               IF is_search_marker_line(trimmed)
               THEN [parser |-> [state |-> "InSearch", current_search |-> <<>>,
                                 current_replace |-> <<>>],
                     patch |-> <<>>]
               ELSE [parser |-> p, patch |-> <<>>]
          [] p.state = "InSearch" /\ is_separator_line(trimmed) ->
               [parser |-> [p EXCEPT !.state = "InReplace"], patch |-> <<>>]
          [] p.state = "InSearch" /\ ~is_separator_line(trimmed)
                                 /\ ~is_replace_marker_line(trimmed) ->
               [parser |-> [p EXCEPT !.current_search = PushLine(@, line)], patch |-> <<>>]
          [] OTHER ->
               IF is_replace_marker_line(trimmed)
               THEN [parser |-> [p EXCEPT !.state = "Idle"],
                     patch |-> <<[search_block  |-> TrimEnd(p.current_search),
                                  replace_block |-> TrimEnd(p.current_replace)]>>]
               ELSE [parser |-> [p EXCEPT !.current_replace = PushLine(@, line)],
                     patch |-> <<>>]

\* DiffParser::process_line: the parser after the line, and the patch it
\* completed (a sequence of zero or one patch)
process_line(p, line) ==
    LET trimmed == Trim(line)
    IN  CASE p.state = "Idle" ->
               IF is_search_marker_line(trimmed)
               THEN [parser |-> [state |-> "InSearch", current_search |-> <<>>,
                                 current_replace |-> <<>>],
                     patch |-> <<>>]
               ELSE [parser |-> p, patch |-> <<>>]
          [] p.state = "InSearch" ->
               IF is_separator_line(trimmed)
               THEN [parser |-> [p EXCEPT !.state = "InReplace"], patch |-> <<>>]
               ELSE [parser |-> [p EXCEPT !.current_search = PushLine(@, line)],
                     patch |-> <<>>]
          [] OTHER ->
               IF is_replace_marker_line(trimmed)
               THEN [parser |-> [p EXCEPT !.state = "Idle"],
                     patch |-> <<[search_block  |-> TrimEnd(p.current_search),
                                  replace_block |-> TrimEnd(p.current_replace)]>>]
               ELSE [parser |-> [p EXCEPT !.current_replace = PushLine(@, line)],
                     patch |-> <<>>]

\* text.replace("\r\n", "\n").replace('\r', "\n")
NormalizeNewlines(text) ==
    ReplaceAll(ReplaceAll(text, <<"\r", "\n">>, <<"\n">>), <<"\r">>, <<"\n">>)

\* the marker test parse_all applies to a completed patch
replace_has_markers(p) ==
    \/ Contains(p.replace_block, CanonSearchMarker)
    \/ Contains(p.replace_block, CanonReplaceMarker)
    \/ Contains(p.replace_block, CanonSeparator)

RECURSIVE ParseLines(_, _)
\* the loop of parse_all over the lines still to read
ParseLines(p, lines) ==
    IF lines = <<>> THEN <<>>
    ELSE LET r    == process_line(p, Head(lines))
             kept == IF r.patch # <<>> /\ ~replace_has_markers(r.patch[1])
                     THEN r.patch ELSE <<>>
         IN  kept \o ParseLines(r.parser, Tail(lines))

\* DiffParser::parse_all
parse_all(text) == ParseLines(DiffParserNew, SplitInclusive(NormalizeNewlines(text)))

\* FuzzyMatcher::locate_exact: <<>> for None, else one match
locate_exact(text, search_text) ==
    LET start == Find(text, search_text)
    IN  IF start < 0 THEN <<>>
        ELSE <<[start_index |-> start, end_index |-> start + Len(search_text)]>>

\* the window test with the lines compared by contains() instead of ==
WindowMatchesByContains(doc_lines, search_lines, i) ==
    \A j \in 0..(Len(search_lines) - 1) :
        Contains(Trim(doc_lines[i + j + 1].text), Trim(search_lines[j + 1]))

\* the inner loop of locate_normalized: the window at document line i (0-based)
\* matches when every line equals the search line after trim()
WindowMatches(doc_lines, search_lines, i) ==
    \A j \in 0..(Len(search_lines) - 1) :
        Trim(doc_lines[i + j + 1].text) = Trim(search_lines[j + 1])

RECURSIVE ScanWindows(_, _, _)
\* the outer loop of locate_normalized from document line i (0-based)
ScanWindows(doc_lines, search_lines, i) ==
    IF i >= Len(doc_lines) THEN <<>>
    ELSE IF i + Len(search_lines) > Len(doc_lines) THEN <<>>
    ELSE IF WindowMatches(doc_lines, search_lines, i)
         THEN LET last == doc_lines[i + Len(search_lines)]
              IN  <<[start_index |-> doc_lines[i + 1].start,
                     end_index   |-> last.start + Len(last.text)]>>
         ELSE ScanWindows(doc_lines, search_lines, i + 1)

\* FuzzyMatcher::locate_normalized: <<>> for None, else the first window
locate_normalized(text, search_text) ==
    LET doc_lines    == LineSpans(text, 0)
        search_lines == Lines(search_text)
    IN  IF search_lines = <<>> THEN <<>>
        ELSE ScanWindows(doc_lines, search_lines, 0)

\* text[..start] + replace, without text[end..]
SpliceDropsTail(text, m, replace_block) ==
    SubSeq(text, 1, m.start_index) \o replace_block

\* text[..start] + replace + text[end..]
Splice(text, m, replace_block) ==
    SubSeq(text, 1, m.start_index) \o replace_block \o SubSeq(text, m.end_index + 1, Len(text))

\* fn apply_patch: Ok(new_doc) or Err(NotFound)
apply_patch(text, patch) ==
    LET e == locate_exact(text, patch.search_block)
        n == locate_normalized(text, patch.search_block)
    IN  IF e # <<>> THEN [ok |-> TRUE, doc |-> Splice(text, e[1], patch.replace_block)]
        ELSE IF n # <<>> THEN [ok |-> TRUE, doc |-> Splice(text, n[1], patch.replace_block)]
        ELSE [ok |-> FALSE, doc |-> text]

(***************************************************************************)
(* DocumentService: modules/document_service.rs                            *)
(***************************************************************************)

\* DocumentState::new
DocumentStateNew(content) == [content |-> content, version |-> 0]

\* reset() that forgets to advance the version
reset_keeps_version(d, new_content) == [content |-> new_content, version |-> d.version]

\* DocumentService::reset
reset(d, new_content) == [content |-> new_content, version |-> d.version + 1]

\* DocumentService::append_content
append_content(d, chunk) == [content |-> d.content \o chunk, version |-> d.version + 1]

\* DocumentService::ensure_newlines
ensure_newlines(d, count) ==
    IF d.content = <<>> THEN d
    ELSE LET existing_newlines == TrailingRun(d.content, "\n")
         IN  IF existing_newlines < count
             THEN [content |-> d.content \o Repeat("\n", count - existing_newlines),
                   version |-> d.version + 1]
             ELSE d

\* DocumentService::apply_patch_to_state: the state after the call and whether
\* it returned Ok
apply_patch_to_state(d, patch) ==
    LET r == apply_patch(d.content, patch)
    IN  IF r.ok THEN [doc |-> [content |-> r.doc, version |-> d.version + 1], ok |-> TRUE]
        ELSE [doc |-> d, ok |-> FALSE]

RECURSIVE ApplyPatches(_, _, _)
\* the loop of process_stream_chunk, left by `?` at the first patch that fails;
\* applied counts the patches applied before
ApplyPatches(d, patches, applied) ==
    IF patches = <<>> THEN [doc |-> d, ret |-> "Ok(true)", applied |-> applied]
    ELSE LET r == apply_patch_to_state(d, Head(patches))
         IN  IF r.ok THEN ApplyPatches(r.doc, Tail(patches), applied + 1)
             ELSE [doc |-> r.doc, ret |-> "Err", applied |-> applied]

\* DocumentService::process_stream_chunk
process_stream_chunk(d, chunk) ==
    LET patches == parse_all(chunk)
    IN  IF patches = <<>> THEN [doc |-> d, ret |-> "Ok(false)", applied |-> 0]
        ELSE ApplyPatches(d, patches, 0)

(***************************************************************************)
(* Inputs of the document operations                                       *)
(***************************************************************************)

\* contents handed to reset(): manual edits, loaded files, rolled-back and
\* GREP results, and the empty document of CLEAR and ResetDocument
DocContents ==
    { <<>>,
      <<"a">>,
      <<"a", "\n", "b">>,
      <<" ", "a", "\n", "b">>,
      <<"b", "a">> }

\* chunks streamed by the APPEND model call
Chunks == { <<"x">>, <<" ">> }

\* marker lines as the model may write them: canonical, and the shortest the
\* parser accepts
MarkerStyles ==
    { [search  |-> <<"<", "<", "<", "<", "<", "<", "<", " ", "SEARCH">>,
       sep     |-> <<"=", "=", "=", "=", "=", "=", "=">>,
       replace |-> <<">", ">", ">", ">", ">", ">", ">", " ", "REPLACE">>],
      [search  |-> <<"<", "<", "<", " ", "SEARCH">>,
       sep     |-> <<"=", "=", "=">>,
       replace |-> <<">", ">", ">", " ", "REPLACE">>] }

\* lines of a SEARCH body
SearchLineSet == { <<"a">>, <<" ", "a">>, <<"c">> }

\* lines of a REPLACE body: text, and lines that look like markers
ReplaceLineSet ==
    { <<"x">>,
      <<"<", "<", "<", " ", "SEARCH">>,
      <<"=", "=", "=">>,
      <<"=", "=", "=", "=", "=", "=", "=">>,
      <<"<", "<", "<", "<", "<", "<", "<", " ", "SEARCH">>,
      <<"x", ">", ">", ">", ">", ">", ">", ">", " ", "REPLACE">> }

\* bodies of at most MaxBodyLines lines
Bodies(lineSet) == UNION { [1..k -> lineSet] : k \in 0..MaxBodyLines }

RECURSIVE JoinLines(_)
\* every line followed by "\n"
JoinLines(ls) == IF ls = <<>> THEN <<>> ELSE Head(ls) \o <<"\n">> \o JoinLines(Tail(ls))

\* one SEARCH/REPLACE block as the model writes it
Block(style, search_lines, replace_lines) ==
    style.search \o <<"\n">> \o JoinLines(search_lines)
    \o style.sep \o <<"\n">> \o JoinLines(replace_lines)
    \o style.replace

\* model responses made of one block
BlockResponses ==
    { [text |-> Block(st, sb, rb), replace_lines |-> rb] :
        st \in MarkerStyles, sb \in Bodies(SearchLineSet), rb \in Bodies(ReplaceLineSet) }

ShortStyle == CHOOSE st \in MarkerStyles : Len(st.sep) = 3

\* model responses of other shapes: prose without a block, a block that is
\* never closed, two blocks (the second found or not), CRLF line ends
OtherResponses ==
    { [text |-> <<"o", "k">>, replace_lines |-> <<>>],
      [text |-> Block(ShortStyle, << <<"a">> >>, << <<"x">> >>), replace_lines |-> << <<"x">> >>],
      [text |-> ShortStyle.search \o <<"\n", "a", "\n">> \o ShortStyle.sep \o <<"\n", "x", "\n">>,
       replace_lines |-> <<>>],
      [text |-> Block(ShortStyle, << <<"a">> >>, << <<"x">> >>) \o <<"\n">>
                \o Block(ShortStyle, << <<"c">> >>, << <<"y">> >>),
       replace_lines |-> <<>>],
      [text |-> Block(ShortStyle, << <<"a">> >>, << <<"x">> >>) \o <<"\n">>
                \o Block(ShortStyle, << <<"b">> >>, << <<"y">> >>),
       replace_lines |-> <<>>],
      [text |-> ReplaceAll(Block(ShortStyle, << <<"a">> >>, << <<"x">> >>), <<"\n">>, <<"\r", "\n">>),
       replace_lines |-> <<>>] }

Responses == BlockResponses \cup OtherResponses

(***************************************************************************)
(* Initial values of the scheduler and of the EDIT agent                   *)
(***************************************************************************)

\* run_pipeline before its loop (pipeline/mod.rs:85-129): no token, not
\* paused, no recording, no deadline, nothing pending, no turn-task, and the
\* initial document-update event with version 0
PipelineReady ==
    /\ asr_cancellation_token = FALSE
    /\ processing_cancellation_token = 0
    /\ is_paused = FALSE
    /\ current_recording_id = "none"
    /\ holdback_deadline = FALSE
    /\ pending_transcript = <<>>
    /\ tasks = <<>>
    /\ last_event = [content |-> <<>>, version |-> 0]
    /\ cmds = 0

\* EditAgent::execute not entered
EditIdle ==
    [pc |-> "idle", attempt |-> 0, llm_calls |-> 0, llm_failed |-> FALSE,
     current_response |-> <<>>, prompt_doc |-> <<>>,
     success |-> FALSE, toast |-> FALSE, finalized |-> "none", edits |-> 0]

\* process_transcript not entered: router 1 has not been asked
PlannerIdle ==
    [pc |-> "idle", start_doc |-> <<>>, full_doc |-> <<>>, answered |-> FALSE,
     response |-> <<>>, router1_result |-> [ok |-> FALSE, plan |-> <<>>],
     plan |-> <<>>, dispatched |-> <<>>]

\* process_transcript not at its step loop, the shared history empty
TurnIdle ==
    [pc |-> "idle", start |-> DocumentStateNew(<<>>), plan |-> <<>>, current_step |-> 0,
     chat_history |-> <<>>, history |-> <<>>, log |-> <<>>,
     first_chunk |-> TRUE, response_buffer |-> <<>>, items |-> 0]

\* no recording directory in use and no commit task spawned
RepoIdle ==
    [pc |-> "idle", disk |-> <<>>, head |-> <<>>, gitlog |-> <<>>, state_doc |-> <<>>,
     ring |-> <<>>, pushed |-> <<>>, persisted |-> [ring |-> <<>>, document |-> <<>>],
     tasks |-> <<>>]

\* run_pipeline with no fragment received
HoldbackIdle ==
    [pc |-> "idle", now |-> 0, deadline |-> -1, received |-> 0, since_fire |-> <<>>,
     accepted |-> <<>>, last_arrival |-> 0, fires |-> 0, turns |-> <<>>,
     last_fire |-> [fragments |-> <<>>, spawned |-> FALSE]]

\* no turn entered, no todo in the state store, no task of update_state_and_git
UpdIdle ==
    [pc |-> "idle", transcript |-> <<>>, recording |-> "none", full_doc |-> <<>>,
     plan |-> <<>>, current_step |-> 0, normalised |-> FALSE, changed |-> FALSE, spawned |-> 0,
     todos |-> <<>>, next_id |-> 1, tasks |-> <<>>, turns |-> 0,
     cleared |-> [on |-> FALSE, cmds |-> 0]]

\* UndoAgent::execute not entered
UndoIdle ==
    [pc |-> "idle", commits |-> <<>>, answered |-> FALSE, output |-> <<>>,
     clean_hash |-> <<>>, restored |-> FALSE, after |-> DocumentStateNew(<<>>)]

\* no commit in the history store, no rollback handled, no UNDO step run
HistIdle ==
    [commits |-> <<>>, next_hash |-> 1, handled |-> 0,
     trip |-> [stage |-> "none", head |-> <<>>, pre |-> DocumentStateNew(<<>>),
               mid |-> DocumentStateNew(<<>>), after |-> DocumentStateNew(<<>>)],
     undo |-> UndoIdle]

\* SpeechAggregator::default()
AggIdle ==
    [pc |-> "idle", buf |-> <<>>, pushed |-> <<>>, out |-> <<>>,
     split |-> [input |-> <<>>, pieces |-> <<>>]]

\* no block written yet
RtIdle ==
    [pc |-> "idle", search_lines |-> <<>>, replace_lines |-> <<>>, text |-> <<>>,
     patches |-> <<>>]

\* GrepAgent::execute not entered
GrepIdle ==
    [pc |-> "idle", response |-> <<>>, latest_doc |-> <<>>, at_write |-> <<>>,
     wrote |-> FALSE, edits |-> 0]

\* DiffParser::new() with nothing to read
LpIdle ==
    [pc |-> "idle", text |-> <<>>, rest |-> <<>>, fed |-> <<>>,
     parser |-> [state |-> "Idle", current_search |-> <<>>, current_replace |-> <<>>],
     patches |-> <<>>]

\* no turn in process_transcript
ProcIdle ==
    [pc |-> "idle", plan |-> <<>>, current_step |-> 0, status |-> "none", outcomes |-> <<>>,
     chat_history |-> <<>>, history |-> <<>>, before_clear |-> {}, cmds |-> 0]

\* a recording without turns
NamingIdle ==
    [name |-> <<"New Recording">>, turns |-> 0, generators |-> <<>>, renamed |-> <<>>]

\* no request sent
SseIdle ==
    [body |-> <<>>, chunks |-> <<>>, buf |-> <<>>, deltas |-> <<>>, ended |-> FALSE]

TailIdle ==
    /\ proc = ProcIdle
    /\ naming = NamingIdle
    /\ sse = SseIdle

MoreIdle ==
    /\ grep = GrepIdle
    /\ lp = LpIdle
    /\ TailIdle

ExtIdle ==
    /\ upd = UpdIdle
    /\ hist = HistIdle
    /\ agg = AggIdle
    /\ rt = RtIdle
    /\ MoreIdle

AuxIdle ==
    /\ planner = PlannerIdle
    /\ turn = TurnIdle
    /\ repo = RepoIdle
    /\ holdback = HoldbackIdle
    /\ ExtIdle

(***************************************************************************)
(* SpecDoc: the DocumentService under every sequence of its calls          *)
(***************************************************************************)

NoOp == [op |-> "new", input |-> <<>>, replace_lines |-> <<>>, patches |-> <<>>,
         before |-> DocumentStateNew(<<>>), ret |-> "", applied |-> 0]

\* DocumentService::new(String::new()) (pipeline/mod.rs:39,68)
InitDoc ==
    /\ doc = DocumentStateNew(<<>>)
    /\ last_op = NoOp
    /\ ops = 0
    /\ PipelineReady
    /\ edit = EditIdle
    /\ AuxIdle

\* the bookkeeping of one process_stream_chunk call on the response resp
ProcessStreamChunkCall(resp) ==
    /\ LET r == process_stream_chunk(doc, resp.text)
       IN  /\ doc' = r.doc
           /\ last_op' = [op |-> "process_stream_chunk", input |-> resp.text,
                          replace_lines |-> resp.replace_lines,
                          patches |-> parse_all(resp.text),
                          before |-> doc, ret |-> r.ret, applied |-> r.applied]
    /\ ops' = ops + 1

DocReset(c) ==
    /\ ops < MaxOps
    /\ doc' = reset(doc, c)
    /\ last_op' = [NoOp EXCEPT !.op = "reset", !.input = c, !.before = doc]
    /\ ops' = ops + 1
    /\ UNCHANGED <<pipeVars, edit, auxVars>>

DocAppendContent(chunk) ==
    /\ ops < MaxOps
    /\ doc' = append_content(doc, chunk)
    /\ last_op' = [NoOp EXCEPT !.op = "append_content", !.input = chunk, !.before = doc]
    /\ ops' = ops + 1
    /\ UNCHANGED <<pipeVars, edit, auxVars>>

DocEnsureNewlines(count) ==
    /\ ops < MaxOps
    /\ doc' = ensure_newlines(doc, count)
    /\ last_op' = [NoOp EXCEPT !.op = "ensure_newlines", !.before = doc]
    /\ ops' = ops + 1
    /\ UNCHANGED <<pipeVars, edit, auxVars>>

DocProcessStreamChunk(resp) ==
    /\ ops < MaxOps
    /\ ProcessStreamChunkCall(resp)
    /\ UNCHANGED <<pipeVars, edit, auxVars>>

NextDoc ==
    \/ \E c \in DocContents : DocReset(c)
    \/ \E chunk \in Chunks : DocAppendContent(chunk)
    \/ \E count \in 1..2 : DocEnsureNewlines(count)
    \/ \E resp \in OtherResponses : DocProcessStreamChunk(resp)

SpecDoc == InitDoc /\ [][NextDoc]_vars

(***************************************************************************)
(* SpecDiff: one model response parsed and applied to a document           *)
(***************************************************************************)

\* the document after reset(c): a manual edit, a loaded or rolled-back file
InitDiff ==
    /\ \E c \in DocContents : doc = reset(DocumentStateNew(<<>>), c)
    /\ last_op = NoOp
    /\ ops = 0
    /\ PipelineReady
    /\ edit = EditIdle
    /\ AuxIdle

DiffProcessStreamChunk(resp) ==
    /\ ops = 0
    /\ ProcessStreamChunkCall(resp)
    /\ UNCHANGED <<pipeVars, edit, auxVars>>

NextDiff == \E resp \in Responses : DiffProcessStreamChunk(resp)

SpecDiff == InitDiff /\ [][NextDiff]_vars

(***************************************************************************)
(* Properties of the document store and the diff engine                    *)
(***************************************************************************)

\* C4: the version never decreases; reset and append_content raise it by
\* exactly one, process_stream_chunk by one for each patch it applied,
\* ensure_newlines by one when it added newlines; a call that failed or
\* changed nothing (a patch not found, nothing to add, no complete block)
\* leaves content and version as they were.
C4_VersionContract ==
    LET b == last_op.before
    IN  /\ doc.version >= b.version
        /\ doc.content # b.content => doc.version > b.version
        /\ last_op.op \in {"reset", "append_content"} => doc.version = b.version + 1
        /\ last_op.op = "reset" => doc.content = last_op.input
        /\ last_op.op = "append_content" => doc.content = b.content \o last_op.input
        /\ last_op.op = "ensure_newlines" =>
              IF doc.content # b.content THEN doc.version = b.version + 1 ELSE doc = b
        /\ last_op.op = "process_stream_chunk" =>
              /\ doc.version = b.version + last_op.applied
              /\ last_op.applied = 0 => doc = b
              /\ last_op.ret = "Ok(false)" => last_op.patches = <<>> /\ doc = b
              /\ last_op.ret = "Ok(true)" => last_op.applied = Len(last_op.patches)
              /\ last_op.ret = "Err" => last_op.applied < Len(last_op.patches)

\* C4 witness: after a call that changed nothing, a response with one patch was
\* applied and raised the version by one
C4_Witness ==
    /\ last_op.op = "process_stream_chunk"
    /\ last_op.ret = "Ok(true)"
    /\ last_op.before.version = 1
    /\ doc.version = 2
    /\ doc.content # last_op.before.content

\* SEARCH occurs in the text as a substring
OccursAsSubstring(text, search) ==
    \E i \in 0..(Len(text) - Len(search)) : SubSeq(text, i + 1, i + Len(search)) = search

\* SEARCH's lines equal a run of whole lines of the text after trimming
OccursLineByLine(text, search) ==
    LET tl == Lines(text)
        sl == Lines(search)
    IN  /\ sl # <<>>
        /\ \E i \in 0..(Len(tl) - Len(sl)) :
               \A j \in 1..Len(sl) : Trim(tl[i + j]) = Trim(sl[j])

\* C8: when the SEARCH block of the (first) patch of a response occurs in the
\* document neither as a substring nor line by line after trimming, the
\* patch is answered NotFound and the document keeps content and version.
C8_NotFoundKeepsDocument ==
    (/\ last_op.op = "process_stream_chunk"
     /\ last_op.patches # <<>>
     /\ ~OccursAsSubstring(last_op.before.content, last_op.patches[1].search_block)
     /\ ~OccursLineByLine(last_op.before.content, last_op.patches[1].search_block))
    => /\ last_op.ret = "Err"
       /\ last_op.applied = 0
       /\ doc = last_op.before

\* C8 witness: a patch whose SEARCH is absent from a non-empty document was
\* answered NotFound
C8_Witness ==
    /\ last_op.op = "process_stream_chunk"
    /\ last_op.patches # <<>>
    /\ last_op.before.content # <<>>
    /\ ~OccursAsSubstring(last_op.before.content, last_op.patches[1].search_block)
    /\ ~OccursLineByLine(last_op.before.content, last_op.patches[1].search_block)
    /\ last_op.ret = "Err"

\* a line the parser takes for a marker: SEARCH with three or more '<', a
\* separator of three or more '=', REPLACE with three or more '>'
IsMarkerLine(line) ==
    \/ is_search_marker_line(line)
    \/ is_separator_line(line)
    \/ is_replace_marker_line(line)

\* C10: a block whose REPLACE body holds a marker line is rejected by the
\* parser and leaves the document as it was.
C10_MarkerInReplaceRejected ==
    (/\ last_op.op = "process_stream_chunk"
     /\ \E i \in 1..Len(last_op.replace_lines) : IsMarkerLine(last_op.replace_lines[i]))
    => /\ last_op.patches = <<>>
       /\ doc = last_op.before

(***************************************************************************)
(* Spec: the scheduler loop of run_pipeline and the turn-tasks it spawns.  *)
(* The scheduler handles one select! branch at a time; every turn-task is  *)
(* a task of the multi-threaded runtime and runs in parallel with it.  A   *)
(* workspace is taken to be open, and file and git calls to succeed.       *)
(***************************************************************************)

\* turn-tasks spawned in one behaviour
MaxTasks == 2
\* frontend commands handled in one behaviour
MaxCmds == 2
\* chunks the model streams to one turn-task
MaxChunks == 1
\* characters held in pending_transcript
MaxPending == 1

RecordingIds == {"r1", "r2"}
\* what a recording's <id>.md holds on disk when the scheduler reads it
FileContents == { <<"a">> }
\* what the editor sends with UpdateDocument
ManualContents == { <<"a">>, <<"\t">> }
Files ==
    {[exists |-> FALSE, content |-> <<>>]}
        \cup {[exists |-> TRUE, content |-> c] : c \in FileContents}
\* final transcripts delivered by the ASR callback
Fragments == { <<>>, <<"t">> }
\* plans returned by IntentRouter::plan_doc_intents
Plans == { <<"APPEND">>, <<"NOOP">> }
FourSpaces == <<" ", " ", " ", " ">>

\* the payload emit_update / emit_and_save build from a snapshot
DocumentUpdate(snapshot) == [content |-> snapshot.content, version |-> snapshot.version]

\* the turn-task created by tokio::spawn; recording is current_recording_id
\* at that moment.  The fields from halted on record what the scheduler has
\* handled since the spawn.
NewTask(recording) ==
    [pc |-> "spawned", cancelled |-> FALSE, recording_id |-> recording,
     full_doc |-> <<>>, plan |-> <<>>, step |-> 0,
     first_chunk |-> TRUE, response_buffer |-> <<>>, chunks |-> 0,
     snap |-> DocumentStateNew(<<>>),
     start_version |-> 0, changed |-> FALSE,
     finalised |-> 0,
     halted |-> FALSE, replaced |-> FALSE, interrupted |-> FALSE]

Finished(task) == task.pc \in {"done", "aborted"}

\* token.cancel() on the token held in processing_cancellation_token: the
\* task's select! (pipeline/mod.rs:653-656) takes its cancelled() branch at the
\* await where process_transcript is suspended; a task that is between the
\* get_snapshot and the emit of emit_and_save gets to its next await first
Cancel(ts, token) ==
    IF token = 0 \/ Finished(ts[token]) THEN ts
    ELSE IF ts[token].pc = "emit" THEN [ts EXCEPT ![token].cancelled = TRUE]
    ELSE [ts EXCEPT ![token].cancelled = TRUE, ![token].pc = "aborted"]
\* a turn-task that can still take a step of process_transcript
Running(task) == ~Finished(task) /\ ~task.cancelled
\* inside the stream loop of AppendAgent::execute
MidStream(task) == task.pc \in {"stream", "emit"}

RECURSIVE NoteHalt(_, _)
\* Pause or Stop has been handled: note it on every unfinished task
NoteHalt(ts, pausing) ==
    IF ts = <<>> THEN <<>>
    ELSE LET task == Head(ts)
             noted == IF Finished(task) THEN task
                      ELSE [task EXCEPT !.halted = TRUE,
                                        !.interrupted = @ \/ (pausing /\ MidStream(task))]
         IN  <<noted>> \o NoteHalt(Tail(ts), pausing)

RECURSIVE NoteReplaced(_)
\* the document has been reset or replaced under every unfinished task
NoteReplaced(ts) ==
    IF ts = <<>> THEN <<>>
    ELSE LET task == Head(ts)
         IN  <<IF Finished(task) THEN task ELSE [task EXCEPT !.replaced = TRUE]>>
                 \o NoteReplaced(Tail(ts))

Init ==
    /\ doc = DocumentStateNew(<<>>)
    /\ last_op = NoOp
    /\ ops = 0
    /\ PipelineReady
    /\ edit = EditIdle
    /\ AuxIdle

\* PipelineCommand::StartRecording (pipeline/mod.rs:149-222)
StartRecording(recording_id, file) ==
    /\ cmds < MaxCmds
    /\ cmds' = cmds + 1
    /\ is_paused' = FALSE
    /\ IF ~asr_cancellation_token
       THEN /\ current_recording_id' = recording_id
            /\ IF file.exists
               THEN LET d == reset(doc, file.content)
                    IN  doc' = d /\ last_event' = DocumentUpdate(d)
               ELSE UNCHANGED <<doc, last_event>>
            /\ asr_cancellation_token' = TRUE
       ELSE UNCHANGED <<current_recording_id, doc, last_event, asr_cancellation_token>>
    /\ UNCHANGED <<processing_cancellation_token, holdback_deadline, pending_transcript,
                   tasks, last_op, ops, edit, auxVars>>

\* PipelineCommand::PauseRecording (pipeline/mod.rs:223-233)
PauseRecording ==
    /\ cmds < MaxCmds
    /\ cmds' = cmds + 1
    /\ is_paused' = TRUE
    /\ tasks' = Cancel(NoteHalt(tasks, TRUE), processing_cancellation_token)
    /\ processing_cancellation_token' = 0
    /\ UNCHANGED <<asr_cancellation_token, current_recording_id, holdback_deadline,
                   pending_transcript, last_event, doc, last_op, ops, edit, auxVars>>

\* PipelineCommand::ResumeRecording (pipeline/mod.rs:234-237)
ResumeRecording ==
    /\ cmds < MaxCmds
    /\ cmds' = cmds + 1
    /\ is_paused' = FALSE
    /\ UNCHANGED <<asr_cancellation_token, processing_cancellation_token,
                   current_recording_id, holdback_deadline, pending_transcript,
                   tasks, last_event, doc, last_op, ops, edit, auxVars>>

\* PipelineCommand::StopRecording (pipeline/mod.rs:238-295)
StopRecording ==
    /\ cmds < MaxCmds
    /\ cmds' = cmds + 1
    /\ is_paused' = FALSE
    /\ asr_cancellation_token' = FALSE
    /\ tasks' = Cancel(NoteHalt(tasks, FALSE), processing_cancellation_token)
    /\ processing_cancellation_token' = 0
    /\ current_recording_id' = "none"
    /\ UNCHANGED <<holdback_deadline, pending_transcript, last_event, doc, last_op, ops, edit, auxVars>>

\* PipelineCommand::ResetDocument (pipeline/mod.rs:296-347)
ResetDocument ==
    /\ cmds < MaxCmds
    /\ cmds' = cmds + 1
    /\ LET d == reset(doc, <<>>)
       IN  doc' = d /\ last_event' = DocumentUpdate(d)
    /\ tasks' = NoteReplaced(tasks)
    /\ UNCHANGED <<asr_cancellation_token, processing_cancellation_token, is_paused,
                   current_recording_id, holdback_deadline, pending_transcript,
                   last_op, ops, edit, auxVars>>

\* PipelineCommand::UpdateDocument (pipeline/mod.rs:348-386)
UpdateDocument(new_content) ==
    /\ cmds < MaxCmds
    /\ cmds' = cmds + 1
    /\ doc' = reset(doc, new_content)
    /\ UNCHANGED <<asr_cancellation_token, processing_cancellation_token, is_paused,
                   current_recording_id, holdback_deadline, pending_transcript,
                   tasks, last_event, last_op, ops, edit, auxVars>>

\* PipelineCommand::LoadRecording (pipeline/mod.rs:477-523)
LoadRecording(recording_id, file) ==
    /\ cmds < MaxCmds
    /\ cmds' = cmds + 1
    /\ is_paused' = FALSE
    /\ current_recording_id' = recording_id
    /\ LET content == IF file.exists THEN file.content ELSE <<>>
           d == reset(doc, content)
       IN  doc' = d /\ last_event' = DocumentUpdate(d)
    /\ tasks' = NoteReplaced(tasks)
    /\ UNCHANGED <<asr_cancellation_token, processing_cancellation_token,
                   holdback_deadline, pending_transcript, last_op, ops, edit, auxVars>>

\* PipelineCommand::DeleteRecording (pipeline/mod.rs:524-543)
DeleteRecording(recording_id) ==
    /\ cmds < MaxCmds
    /\ cmds' = cmds + 1
    /\ IF current_recording_id = recording_id
       THEN /\ current_recording_id' = "none"
            /\ doc' = reset(doc, <<>>)
            /\ tasks' = NoteReplaced(tasks)
       ELSE UNCHANGED <<current_recording_id, doc, tasks>>
    /\ UNCHANGED <<asr_cancellation_token, processing_cancellation_token, is_paused,
                   holdback_deadline, pending_transcript, last_event, last_op, ops, edit, auxVars>>

\* Some(transcript) = asr_rx.recv() (pipeline/mod.rs:595-604).  The stored
\* ASR token is never a cancelled one: Stop takes it before cancelling it.
AsrTranscript(transcript) ==
    /\ asr_cancellation_token
    /\ ~is_paused
    /\ Len(pending_transcript) + Len(transcript) <= MaxPending
    /\ pending_transcript' = pending_transcript \o transcript
    /\ holdback_deadline' = TRUE
    /\ UNCHANGED <<asr_cancellation_token, processing_cancellation_token, is_paused,
                   current_recording_id, tasks, last_event, cmds, doc, last_op, ops, edit, auxVars>>

\* the timeout branch with the holdback deadline met (pipeline/mod.rs:606-679).
\* speech_agg is never pushed to, so its flush() yields the empty string and
\* turn_text is the pending text.  flush_deadline is never set, so the second
\* half of the branch (682-736) cannot run.
HoldbackFires ==
    /\ holdback_deadline
    /\ pending_transcript' = <<>>
    /\ holdback_deadline' = FALSE
    /\ IF pending_transcript = <<>>
       THEN UNCHANGED <<tasks, processing_cancellation_token>>
       ELSE /\ Len(tasks) < MaxTasks
            /\ tasks' = Append(tasks, NewTask(current_recording_id))
            /\ processing_cancellation_token' = Len(tasks) + 1
    /\ UNCHANGED <<asr_cancellation_token, is_paused, current_recording_id,
                   last_event, cmds, doc, last_op, ops, edit, auxVars>>

\* the first poll of process_transcript (transcript_processor.rs:39-116): the
\* status events, the snapshot, the tab normalisation, the routers spawned
TaskBegin(t) ==
    /\ t \in DOMAIN tasks
    /\ tasks[t].pc = "spawned"
    /\ ~tasks[t].cancelled
    /\ LET full_doc == ReplaceAll(doc.content, <<"\t">>, FourSpaces)
           normalise == Contains(doc.content, <<"\t">>)
           d == IF normalise THEN reset(doc, full_doc) ELSE doc
       IN  /\ doc' = d
           /\ last_event' = IF normalise THEN DocumentUpdate(d) ELSE last_event
           /\ tasks' = [tasks EXCEPT ![t].pc = "routing",
                                     ![t].full_doc = full_doc,
                                     ![t].start_version = doc.version]
    /\ UNCHANGED <<asr_cancellation_token, processing_cancellation_token, is_paused,
                   current_recording_id, holdback_deadline, pending_transcript,
                   cmds, last_op, ops, edit, auxVars>>

RECURSIVE NextStep(_, _)
\* the step loop of process_transcript from step k on (transcript_processor.rs:
\* 247-282): a NOOP step returns without awaiting; 0 when the plan is exhausted
NextStep(plan, k) ==
    IF k > Len(plan) THEN 0
    ELSE IF plan[k] = "NOOP" THEN NextStep(plan, k + 1) ELSE k

\* the task once the steps before k are done
Continue(task, k) ==
    LET n == NextStep(task.plan, k)
    IN  IF n = 0 THEN [task EXCEPT !.pc = "done"]
        ELSE [task EXCEPT !.pc = "step", !.step = n]

\* the routers and the gatherers have answered (transcript_processor.rs:
\* 112-245); routed is the plan of router 1, [APPEND] when it failed
TaskPlanned(t, routed) ==
    /\ t \in DOMAIN tasks
    /\ tasks[t].pc = "routing"
    /\ ~tasks[t].cancelled
    /\ LET plan == IF Trim(tasks[t].full_doc) = <<>> THEN <<"APPEND">> ELSE routed
       IN  tasks' = [tasks EXCEPT ![t] =
                        Continue([@ EXCEPT !.plan = plan, !.full_doc = <<>>], 1)]
    /\ UNCHANGED <<asr_cancellation_token, processing_cancellation_token, is_paused,
                   current_recording_id, holdback_deadline, pending_transcript,
                   last_event, cmds, doc, last_op, ops, edit, auxVars>>

\* AppendAgent::execute up to the stream being opened (append_agent.rs:25-86);
\* when stream_completion fails the step returns Ok(())
AppendOpen(t, opened) ==
    /\ t \in DOMAIN tasks
    /\ tasks[t].pc = "step"
    /\ tasks[t].plan[tasks[t].step] = "APPEND"
    /\ ~tasks[t].cancelled
    /\ tasks' = [tasks EXCEPT ![t] =
                    IF opened
                    THEN [@ EXCEPT !.pc = "stream", !.first_chunk = TRUE,
                                   !.response_buffer = <<>>]
                    ELSE Continue(@, @.step + 1)]
    /\ UNCHANGED <<asr_cancellation_token, processing_cancellation_token, is_paused,
                   current_recording_id, holdback_deadline, pending_transcript,
                   last_event, cmds, doc, last_op, ops, edit, auxVars>>

\* one chunk of the stream (append_agent.rs:88-100), up to the get_snapshot of
\* emit_and_save
AppendChunk(t, chunk) ==
    /\ t \in DOMAIN tasks
    /\ tasks[t].pc = "stream"
    /\ ~tasks[t].cancelled
    /\ tasks[t].chunks < MaxChunks
    /\ LET processed == ReplaceAll(chunk, <<"\t">>, FourSpaces)
           d1 == IF tasks[t].first_chunk THEN ensure_newlines(doc, 2) ELSE doc
           d2 == append_content(d1, processed)
       IN  /\ doc' = d2
           /\ tasks' = [tasks EXCEPT ![t].pc = "emit",
                                     ![t].first_chunk = FALSE,
                                     ![t].response_buffer = @ \o processed,
                                     ![t].chunks = @ + 1,
                                     ![t].snap = d2,
                                     ![t].changed = TRUE]
    /\ UNCHANGED <<asr_cancellation_token, processing_cancellation_token, is_paused,
                   current_recording_id, holdback_deadline, pending_transcript,
                   last_event, cmds, last_op, ops, edit, auxVars>>

\* the emit of emit_and_save (utils.rs:22-25) with the snapshot taken before;
\* no await lies between the two, so a cancelled task still gets here
TaskEmit(t) ==
    /\ t \in DOMAIN tasks
    /\ tasks[t].pc = "emit"
    /\ last_event' = DocumentUpdate(tasks[t].snap)
    /\ tasks' = [tasks EXCEPT ![t].pc = IF tasks[t].cancelled THEN "aborted" ELSE "stream",
                              ![t].snap = DocumentStateNew(<<>>)]
    /\ UNCHANGED <<asr_cancellation_token, processing_cancellation_token, is_paused,
                   current_recording_id, holdback_deadline, pending_transcript,
                   cmds, doc, last_op, ops, edit, auxVars>>

RECURSIVE IndentLines(_)
\* Regex (?m)^<two spaces> replaced by four spaces, line by line
IndentLines(ls) ==
    IF ls = <<>> THEN <<>>
    ELSE LET l == Head(ls)
             fixed == IF Len(l) >= 2 /\ l[1] = " " /\ l[2] = " " THEN <<" ", " ">> \o l ELSE l
         IN  fixed \o IndentLines(Tail(ls))

\* the final cleanup of the streamed response (append_agent.rs:105-109)
CleanResponse(response_buffer) ==
    Trim(IndentLines(SplitInclusive(ReplaceAll(response_buffer, <<"\t">>, FourSpaces))))

\* update_state_and_git (state_updater.rs:12-177) as seen from the task that
\* calls it: the focus task and the todo task are spawned, and the commit
\* task too when there is a recording path
update_state_and_git(task) == [task EXCEPT !.finalised = @ + 1]

\* the commit tasks spawned for a turn (state_updater.rs:111-176): one for
\* each update_state_and_git call that was given a recording path
Commits(task) == IF task.recording_id # "none" THEN task.finalised ELSE 0

\* the stream has ended (append_agent.rs:104-135); after the last step the
\* chat history is written back and process_transcript returns
\* (transcript_processor.rs:288-347)
AppendEnd(t) ==
    /\ t \in DOMAIN tasks
    /\ tasks[t].pc = "stream"
    /\ ~tasks[t].cancelled
    /\ LET response == CleanResponse(tasks[t].response_buffer)
           after == IF response # <<>> THEN update_state_and_git(tasks[t]) ELSE tasks[t]
       IN  tasks' = [tasks EXCEPT ![t] =
                        Continue([after EXCEPT !.response_buffer = <<>>], after.step + 1)]
    /\ UNCHANGED <<asr_cancellation_token, processing_cancellation_token, is_paused,
                   current_recording_id, holdback_deadline, pending_transcript,
                   last_event, cmds, doc, last_op, ops, edit, auxVars>>

Next ==
    \/ \E id \in RecordingIds, file \in Files : StartRecording(id, file)
    \/ PauseRecording
    \/ ResumeRecording
    \/ StopRecording
    \/ ResetDocument
    \/ \E c \in ManualContents : UpdateDocument(c)
    \/ \E id \in RecordingIds, file \in Files : LoadRecording(id, file)
    \/ \E id \in RecordingIds : DeleteRecording(id)
    \/ \E transcript \in Fragments : AsrTranscript(transcript)
    \/ HoldbackFires
    \/ \E t \in 1..MaxTasks : TaskBegin(t)
    \/ \E t \in 1..MaxTasks, routed \in Plans : TaskPlanned(t, routed)
    \/ \E t \in 1..MaxTasks, opened \in BOOLEAN : AppendOpen(t, opened)
    \/ \E t \in 1..MaxTasks, chunk \in Chunks : AppendChunk(t, chunk)
    \/ \E t \in 1..MaxTasks : TaskEmit(t)
    \/ \E t \in 1..MaxTasks : AppendEnd(t)

Spec == Init /\ [][Next]_vars

(***************************************************************************)
(* Properties of the scheduler and its turn-tasks                          *)
(***************************************************************************)

\* C1: at any time at most one turn-task is running: a task spawned earlier
\* has finished or has been cancelled by the time the next one is spawned.
C1_AtMostOneTurnTask ==
    Cardinality({t \in DOMAIN tasks : Running(tasks[t])}) <= 1

\* task t writes into the document in this step: a streamed chunk is appended
\* or the tabs of the document are normalised
TaskWrites(t) ==
    \/ tasks'[t].chunks # tasks[t].chunks
    \/ tasks[t].pc = "spawned" /\ tasks'[t].pc = "routing" /\ doc' # doc

\* task t advances the recording state in this step (update_state_and_git)
TaskAdvancesState(t) == tasks'[t].finalised # tasks[t].finalised

\* C2: once PauseRecording or StopRecording has been handled, no turn-task
\* spawned before it mutates the document, starts a document-update emission
\* or advances the state.  (An emission is counted with the step that takes
\* its snapshot, the append of the chunk.)
C2_HaltedTasksStayQuiet ==
    [][\A t \in DOMAIN tasks :
          tasks[t].halted => ~TaskWrites(t) /\ ~TaskAdvancesState(t)]_vars

\* C3: once ResetDocument, LoadRecording or DeleteRecording of the active
\* recording has been handled, no turn-task started before it writes into
\* the document.
C3_ReplacedDocumentNotWritten ==
    [][\A t \in DOMAIN tasks : tasks[t].replaced => ~TaskWrites(t)]_vars

\* C5: a turn of a recording that ran to completion with a step that changed
\* the document ends at a version above the one it started at, and a commit
\* task was spawned for it (without one no commit can ever exist).
C5_ChangedTurnIsCommitted ==
    \A t \in DOMAIN tasks :
        (tasks[t].pc = "done" /\ tasks[t].changed /\ tasks[t].recording_id # "none")
            => /\ doc.version > tasks[t].start_version
               /\ Commits(tasks[t]) > 0

\* C6: the versions carried by successive document-update events never
\* decrease, whatever the interleaving of turn-tasks and scheduler commands.
C6_EventVersionsMonotonic ==
    [][last_event'.version >= last_event.version]_vars

\* C7: when PauseRecording is handled while a turn's APPEND step is
\* mid-stream, the pause leaves the appended chunks in the document and the
\* turn produces no commit, todo maintenance or focus refresh afterwards.
C7_InterruptedTurnNotFinalised ==
    [][\A t \in DOMAIN tasks :
          /\ (~tasks[t].interrupted /\ tasks'[t].interrupted) => doc' = doc
          /\ tasks[t].interrupted => ~TaskAdvancesState(t)]_vars

\* the recording session as the scheduler's variables show it: Idle without
\* an ASR capture handle, else Paused or Recording by is_paused
Session ==
    IF ~asr_cancellation_token THEN "Idle"
    ELSE IF is_paused THEN "Paused" ELSE "Recording"

SessionMoves ==
    { <<"Idle", "Recording">>, <<"Recording", "Paused">>,
      <<"Paused", "Recording">>, <<"Recording", "Idle">> }

SessionHoldsId == (Session = "Idle") <=> (current_recording_id = "none")

\* C18: in every scheduler state the session is Recording or Paused only if
\* an active recording id is set and the id is unset whenever it is Idle, and
\* the session only moves Idle -> Recording -> Paused -> Recording -> Idle.
C18_SessionStateMachine ==
    [][ /\ SessionHoldsId
        /\ SessionHoldsId'
        /\ Session' # Session => <<Session, Session'>> \in SessionMoves ]_vars

(***************************************************************************)
(* SpecEdit: one run of EditAgent::execute, with manual edits of the       *)
(* document arriving from the scheduler while the agent awaits the model   *)
(***************************************************************************)

\* pub const MAX_EDIT_RETRIES
MAX_EDIT_RETRIES == 3
\* UpdateDocument commands handled during one run of the agent
MaxManualEdits == 1

CanonStyle == CHOOSE st \in MarkerStyles : Len(st.sep) = 7
\* a block the model wrote with five-character markers
FiveStyle ==
    [search  |-> <<"<", "<", "<", "<", "<", " ", "SEARCH">>,
     sep     |-> CanonSeparator,
     replace |-> <<">", ">", ">", ">", ">", " ", "REPLACE">>]

\* responses of the coder model: a block for the line a, one for the line c,
\* one for the line b with short markers, and prose without a block
EditResponses ==
    { Block(CanonStyle, << <<"a">> >>, << <<"x">> >>),
      Block(CanonStyle, << <<"c">> >>, << <<"y">> >>),
      Block(FiveStyle, << <<"b">> >>, << <<"\t", "z">> >>),
      <<"o", "k">> }
\* documents the agent is started on, and contents of a manual edit
EditDocs == { <<"a">>, <<"b">>, <<"d">> }

\* EditAgent::cleanup_tags
cleanup_tags(response) ==
    LET r1 == ReplaceAll(response, <<"<", "<", "<", "<", "<", " ", "SEARCH">>, CanonSearchMarker)
        r2 == ReplaceAll(r1, <<"<", "<", "<", "<", " ", "SEARCH">>, CanonSearchMarker)
        r3 == ReplaceAll(r2, <<">", ">", ">", ">", ">", " ", "REPLACE">>, CanonReplaceMarker)
        r4 == ReplaceAll(r3, <<">", ">", ">", ">", ">", ">", " ", "REPLACE">>, CanonReplaceMarker)
    IN  ReplaceAll(r4, <<"\t">>, FourSpaces)

\* EditAgent::execute up to its first model call (edit_agent.rs:24-78): the
\* system prompt is rendered from the snapshot taken on entry
InitEdit ==
    /\ \E c \in EditDocs : doc = reset(DocumentStateNew(<<>>), c)
    /\ last_op = NoOp
    /\ ops = 0
    /\ PipelineReady
    /\ edit = [EditIdle EXCEPT !.pc = "call", !.prompt_doc = doc.content]
    /\ AuxIdle

\* the first stream_completion has answered (edit_agent.rs:78-88)
EditFirstCall(answered, response) ==
    /\ edit.pc = "call"
    /\ edit' = IF answered
               THEN [edit EXCEPT !.pc = "apply", !.llm_calls = 1, !.attempt = 1,
                                 !.current_response = response]
               ELSE [edit EXCEPT !.pc = "done", !.llm_failed = TRUE]
    /\ UNCHANGED <<doc, last_op, ops, pipeVars, auxVars>>

\* one pass of the retry loop up to its model call (edit_agent.rs:91-143) and,
\* when the loop is left, the toast after it (159-162)
EditApply ==
    /\ edit.pc = "apply"
    /\ \E clean_response \in {cleanup_tags(edit.current_response)} :
       \E r \in {process_stream_chunk(doc, clean_response)} :
           /\ doc' = r.doc
           /\ last_event' = IF r.ret = "Ok(true)" THEN DocumentUpdate(r.doc) ELSE last_event
           /\ edit' =
                CASE r.ret = "Ok(true)" ->
                        [edit EXCEPT !.pc = "done", !.success = TRUE, !.finalized = "finalize"]
                  [] r.ret = "Ok(false)" ->
                        [edit EXCEPT !.pc = "done", !.success = TRUE, !.finalized = "finalize_no_save"]
                  [] OTHER ->
                        IF edit.attempt = MAX_EDIT_RETRIES
                        THEN [edit EXCEPT !.pc = "done", !.toast = TRUE]
                        ELSE [edit EXCEPT !.pc = "retry_call", !.prompt_doc = r.doc.content]
    /\ UNCHANGED <<last_op, ops, asr_cancellation_token, processing_cancellation_token,
                   is_paused, current_recording_id, holdback_deadline,
                   pending_transcript, tasks, cmds, auxVars>>

\* the stream_completion of a retry has answered (edit_agent.rs:145-154)
EditRetryCall(answered, response) ==
    /\ edit.pc = "retry_call"
    /\ edit' = IF answered
               THEN [edit EXCEPT !.pc = "apply", !.llm_calls = @ + 1, !.attempt = @ + 1,
                                 !.current_response = response]
               ELSE [edit EXCEPT !.pc = "done", !.llm_failed = TRUE, !.toast = TRUE]
    /\ UNCHANGED <<doc, last_op, ops, pipeVars, auxVars>>

\* PipelineCommand::UpdateDocument handled by the scheduler while the agent is
\* suspended at a model call (pipeline/mod.rs:348-355)
EditManualEdit(new_content) ==
    /\ edit.pc \in {"call", "retry_call"}
    /\ edit.edits < MaxManualEdits
    /\ doc' = reset(doc, new_content)
    /\ edit' = [edit EXCEPT !.edits = @ + 1]
    /\ UNCHANGED <<last_op, ops, pipeVars, auxVars>>

NextEdit ==
    \/ \E answered \in BOOLEAN, response \in EditResponses : EditFirstCall(answered, response)
    \/ EditApply
    \/ \E answered \in BOOLEAN, response \in EditResponses : EditRetryCall(answered, response)
    \/ \E c \in EditDocs : EditManualEdit(c)

SpecEdit == InitEdit /\ [][NextEdit]_vars

\* C9: when applying fails every time and every model call answers, the
\* agent gives up with the warning toast only after MAX_EDIT_RETRIES (three)
\* further model calls, each followed by an apply attempt.
C9_ThreeRetriesBeforeToast ==
    (edit.pc = "done" /\ edit.toast /\ ~edit.llm_failed)
        => edit.llm_calls = 1 + MAX_EDIT_RETRIES

(***************************************************************************)
(* SpecPlan: router 1 and the plan a turn executes                         *)
(*   intent_router.rs: DocIntent::from_str, IntentRouter::plan_doc_intents *)
(*   pipeline/transcript_processor.rs: process_transcript                  *)
(* A router answer is text over the characters below; a word in capitals   *)
(* or in lower case stands for its run of letters.                         *)
(***************************************************************************)

\* the largest number of lines in a router answer
MaxPlanLines == 2

Digits == {"1", "2"}
\* the regex class [A-Za-z-_]
TagChars == {"APPEND", "EDIT", "GREP", "UNDO", "CLEAR", "NO-OP", "NOTH", "FOO",
             "append", "x", "y", "-", "_"}
WsChars == {" ", "\t", "\n", "\r"}

\* char::to_uppercase over the letters of the alphabet
ToUpper(c) ==
    CASE c = "append" -> "APPEND"
      [] c = "x" -> "X"
      [] c = "y" -> "Y"
      [] OTHER -> c

RECURSIVE Run(_, _, _)
\* the length of the longest run of characters of class that starts at s[i]
Run(s, i, class) ==
    IF i <= Len(s) /\ s[i] \in class THEN 1 + Run(s, i + 1, class) ELSE 0

\* DocIntent::from_str: trims, upper-cases and compares with the known tags
from_str(s) ==
    LET normalized == [i \in 1..Len(Trim(s)) |-> ToUpper(Trim(s)[i])]
    IN  CASE normalized \in {<<"NO-OP">>, <<"NOOP">>, <<"NO_OP">>} -> "NoOp"
          [] normalized = <<"APPEND">> -> "Append"
          [] normalized = <<"EDIT">> -> "Edit"
          [] normalized = <<"GREP">> -> "Grep"
          [] normalized \in {<<"NOTH">>, <<"UNDO">>} -> "Undo"
          [] normalized = <<"CLEAR">> -> "Clear"
          [] OTHER -> "None"

PlanStep(intent, instruction) == [intent |-> intent, instruction |-> instruction]

\* PlanStep::to_doc_intent
to_doc_intent(step) == from_str(step.intent)

\* re.captures(line) for ^\s*(\d+)\.\s*\[?([A-Za-z-_]+)\]?\s*(.*)$ on one
\* trimmed line: every quantifier is greedy and no shorter choice lets the
\* rest match, so the match is found in one left-to-right pass
captures(line) ==
    LET ws0 == Run(line, 1, WsChars)
        num == Run(line, 1 + ws0, Digits)
        dot == 1 + ws0 + num
        ws1 == Run(line, dot + 1, WsChars)
        lb  == IF dot + 1 + ws1 <= Len(line) /\ line[dot + 1 + ws1] = "[" THEN 1 ELSE 0
        tag == dot + 1 + ws1 + lb
        len == Run(line, tag, TagChars)
        rb  == IF tag + len <= Len(line) /\ line[tag + len] = "]" THEN 1 ELSE 0
        ws2 == Run(line, tag + len + rb, WsChars)
    IN  IF num >= 1 /\ dot <= Len(line) /\ line[dot] = "." /\ len >= 1
        THEN [matched |-> TRUE,
              intent |-> SubSeq(line, tag, tag + len - 1),
              instruction |-> SubSeq(line, tag + len + rb + ws2, Len(line))]
        ELSE [matched |-> FALSE, intent |-> <<>>, instruction |-> <<>>]

RECURSIVE ParseSteps(_)
\* the loop over response.lines() (intent_router.rs:127-140)
ParseSteps(lines) ==
    IF lines = <<>> THEN <<>>
    ELSE LET line == Trim(Head(lines))
             caps == captures(line)
         IN  IF line # <<>> /\ caps.matched
             THEN <<PlanStep(caps.intent, caps.instruction)>> \o ParseSteps(Tail(lines))
             ELSE ParseSteps(Tail(lines))

\* plan_doc_intents: answered is FALSE when stream_completion failed
plan_doc_intents(answered, raw) ==
    LET response == Trim(raw)
        steps    == ParseSteps(Lines(response))
    IN  IF ~answered THEN [ok |-> FALSE, plan |-> <<>>]
        ELSE IF steps # <<>> THEN [ok |-> TRUE, plan |-> steps]
        ELSE IF from_str(response) # "None"
        THEN [ok |-> TRUE,
              plan |-> <<PlanStep(response, <<"Execute user request based on transcript">>)>>]
        ELSE [ok |-> FALSE, plan |-> <<>>]

\* the plan used when router 1 failed (transcript_processor.rs:123-136)
FallbackPlan == <<PlanStep(<<"APPEND">>, <<"Process transcript">>)>>

\* the plan forced on an empty document (transcript_processor.rs:141-147)
ForcedPlan == <<PlanStep(<<"APPEND">>, <<"Initial document content">>)>>

\* the plan as chosen without the empty-document rule
ExecutedPlanAsRouted(full_doc, router1_result) ==
    IF router1_result.ok THEN router1_result.plan ELSE FallbackPlan

\* process_transcript's choice of the plan (transcript_processor.rs:118-147)
ExecutedPlan(full_doc, router1_result) ==
    IF Trim(full_doc) = <<>> THEN ForcedPlan
    ELSE IF router1_result.ok THEN router1_result.plan ELSE FallbackPlan

\* the agent a step is dispatched to (transcript_processor.rs:252)
Dispatch(step) == IF to_doc_intent(step) = "None" THEN "NoOp" ELSE to_doc_intent(step)

PlanLines ==
    { <<"1", ".", " ", "[", "APPEND", "]", " ", "x">>,
      <<"2", ".", " ", "EDIT", " ", "y">>,
      <<"1", ".", " ", "[", "FOO", "]", " ", "x">>,
      <<"1", ".", "[", "NO-OP", "]">>,
      <<"1", ".", " ", "[", "GREP", "]", " ", "x">>,
      <<"2", ".", " ", "[", "UNDO", "]">>,
      <<"1", ".", " ", "[", "CLEAR", "]">>,
      <<"APPEND">>,
      <<"append">>,
      <<"x", " ", "y">>,
      <<"[", "EDIT", "]", " ", "y">>,
      <<" ">> }

PlanResponses ==
    { JoinLines(ls) : ls \in UNION { [1..k -> PlanLines] : k \in 0..MaxPlanLines } }

PlanDocs == { <<>>, <<" ", "\n">>, <<"\t">>, <<"a">> }

\* process_transcript entered with some document (transcript_processor.rs:26)
InitPlan ==
    /\ \E c \in PlanDocs : doc = reset(DocumentStateNew(<<>>), c)
    /\ last_op = NoOp
    /\ ops = 0
    /\ PipelineReady
    /\ edit = EditIdle
    /\ ExtIdle
    /\ turn = TurnIdle
    /\ repo = RepoIdle
    /\ holdback = HoldbackIdle
    /\ planner = [PlannerIdle EXCEPT !.pc = "begin"]

\* the snapshot and the tab normalisation (transcript_processor.rs:62-71)
PlanSnapshot ==
    /\ planner.pc = "begin"
    /\ LET normalized == ReplaceAll(doc.content, <<"\t">>, FourSpaces)
       IN  /\ doc' = IF Contains(doc.content, <<"\t">>) THEN reset(doc, normalized) ELSE doc
           /\ planner' = [planner EXCEPT !.pc = "routing", !.start_doc = doc.content,
                                         !.full_doc = normalized]
    /\ UNCHANGED <<last_op, ops, pipeVars, edit, turn, repo, holdback, extVars>>

\* router 1 has returned (transcript_processor.rs:85-137)
PlanRouted(answered, response) ==
    /\ planner.pc = "routing"
    /\ planner' = [planner EXCEPT !.pc = "routed", !.answered = answered,
                                  !.response = IF answered THEN response ELSE <<>>,
                                  !.router1_result =
                                      plan_doc_intents(answered,
                                                       IF answered THEN response ELSE <<>>)]
    /\ UNCHANGED <<docVars, pipeVars, edit, turn, repo, holdback, extVars>>

\* the plan is fixed and its steps are dispatched in order
\* (transcript_processor.rs:118-147, 247-272)
PlanChosen ==
    /\ planner.pc = "routed"
    /\ \E plan \in {ExecutedPlan(planner.full_doc, planner.router1_result)} :
           planner' = [planner EXCEPT !.pc = "planned", !.plan = plan,
                                      !.dispatched = [i \in 1..Len(plan) |-> Dispatch(plan[i])]]
    /\ UNCHANGED <<docVars, pipeVars, edit, turn, repo, holdback, extVars>>

NextPlan ==
    \/ PlanSnapshot
    \/ \E answered \in BOOLEAN, response \in PlanResponses : PlanRouted(answered, response)
    \/ PlanChosen

SpecPlan == InitPlan /\ [][NextPlan]_vars

KnownIntents == {"NoOp", "Append", "Edit", "Grep", "Undo", "Clear"}

\* C11: if the document is empty or whitespace-only when a turn starts, the
\* plan that is executed is exactly one APPEND step, whatever router 1
\* returned and also when router 1 failed.
C11_EmptyDocumentForcesAppend ==
    (planner.pc = "planned" /\ Trim(planner.start_doc) = <<>>)
        => /\ Len(planner.plan) = 1
           /\ planner.plan[1].intent = <<"APPEND">>
           /\ planner.dispatched = <<"Append">>

\* a turn that started on a whitespace-only document for which router 1
\* planned something other than one APPEND, and one for which router 1 failed
C11_Witness ==
    /\ planner.pc = "planned"
    /\ planner.start_doc = <<" ", "\n">>
    /\ planner.router1_result.ok
    /\ Len(planner.router1_result.plan) = 2
    /\ planner.router1_result.plan[1].intent = <<"EDIT">>
    /\ planner.dispatched = <<"Append">>

\* C12: a plan line whose intent tag is outside the known set never becomes
\* a step of the executed plan, and when router 1 parsed no valid step the
\* turn on a non-empty document executes the plan [APPEND] Process transcript.
C12_UnknownIntentRejected ==
    planner.pc = "planned"
        => /\ \A i \in 1..Len(planner.plan) : to_doc_intent(planner.plan[i]) \in KnownIntents
           /\ ( /\ Trim(planner.full_doc) # <<>>
                /\ \A i \in 1..Len(planner.router1_result.plan) :
                       to_doc_intent(planner.router1_result.plan[i]) \notin KnownIntents )
              => planner.plan = FallbackPlan

(***************************************************************************)
(* SpecTurn: the step loop of one turn and its agents                      *)
(*   pipeline/transcript_processor.rs: process_transcript (216-298)        *)
(*   agents/editor/{append,edit,grep,undo,clear}_agent.rs                  *)
(* turn.log has one entry per step the loop has started: the snapshot the  *)
(* agent read on entry, what failed (failed_after_content: the stream      *)
(* yielded an error after a chunk had been appended), and the document     *)
(* when the step ended.                                                    *)
(* A chat message is modelled by its role.                                 *)
(***************************************************************************)

\* the largest number of steps in a plan
MaxPlanSteps == 2
\* the largest number of items one APPEND stream yields
MaxStreamItems == 2

MAX_HISTORY == 6
\* the agents' own `let max_history = 6`
max_history == 6

\* steps that do not read the document on entry
NoSnapshot == [content |-> <<>>, version |-> -1]

StepEntry(intent, read) ==
    [intent |-> intent, read |-> read, llm_failed |-> FALSE, stream_failed |-> FALSE,
     delivered |-> FALSE, failed_after_content |-> FALSE, finalised |-> FALSE, finished |-> FALSE, after |-> NoSnapshot]

\* the two chat_history.push calls every agent makes: the transcript as
\* "user" and the agent's answer as "assistant"
PushExchange(h) == h \o <<"user", "assistant">>

\* the drain(0..remove) that keeps the newest max messages
Truncate(h, max) ==
    IF Len(h) > max THEN SubSeq(h, Len(h) - max + 1, Len(h)) ELSE h

\* the document snapshot an agent reads on entry: the turn's snapshot
StepSnapshotOfTurnStart(d, start) == start

\* the document snapshot an agent reads on entry: ctx.doc_service.get_snapshot()
\* (append_agent.rs:27, edit_agent.rs:35, grep_agent.rs:27)
StepSnapshot(d, start) == d

\* GrepAgent's scan of the response for FIND: and REPLACE: (grep_agent.rs:81-89)
RECURSIVE grep_parse(_, _)
grep_parse(lines, acc) ==
    IF lines = <<>> THEN acc
    ELSE LET line == Head(lines)
             rest == SubSeq(line, 1 + LeadingRun(line, IF line[1] = "FIND:" THEN "FIND:" ELSE "REPLACE:"),
                            Len(line))
         IN  IF line # <<>> /\ line[1] = "FIND:"
             THEN grep_parse(Tail(lines), [acc EXCEPT !.find = Trim(rest)])
             ELSE IF line # <<>> /\ line[1] = "REPLACE:"
             THEN grep_parse(Tail(lines), [acc EXCEPT !.replace = Trim(rest)])
             ELSE grep_parse(Tail(lines), acc)

TurnDocs == { <<>>, <<"a">> }

TurnPlans ==
    LET tags == {"APPEND", "EDIT", "GREP", "UNDO", "CLEAR", "NO-OP"}
    IN  UNION { [1..k -> { PlanStep(<<tag>>, <<"x">>) : tag \in tags }] : k \in 1..MaxPlanSteps }

\* the shared history at the start of a turn: empty, or full after three turns
TurnHistories == { <<>>, <<"user", "assistant", "user", "assistant", "user", "assistant">> }

StreamItems == { [ok |-> TRUE, chunk |-> c] : c \in Chunks } \cup { [ok |-> FALSE, chunk |-> <<>>] }

GrepResponses ==
    { <<"FIND:", " ", "a", "\n", "REPLACE:", " ", "x">>,
      <<"FIND:", " ", "c", "\n", "REPLACE:", " ", "x">>,
      <<"o", "k">> }

UndoOutcomes == { [restored |-> FALSE, content |-> <<>>], [restored |-> TRUE, content |-> <<"a">>] }

TurnEditResponses == { r \in EditResponses : Contains(r, <<"x">>) \/ ~Contains(r, <<"\n">>) }

TurnManualContents == { <<"b">> }

\* process_transcript at its step loop (transcript_processor.rs:223-247): the
\* plan is fixed and the blackboard holds a copy of the shared history
InitTurn ==
    /\ \E c \in TurnDocs : doc = reset(DocumentStateNew(<<>>), c)
    /\ last_op = NoOp
    /\ ops = 0
    /\ PipelineReady
    /\ edit = EditIdle
    /\ ExtIdle
    /\ planner = PlannerIdle
    /\ repo = RepoIdle
    /\ holdback = HoldbackIdle
    /\ \E routed \in TurnPlans, h \in TurnHistories :
           turn = [pc |-> "loop", start |-> doc,
                   plan |-> ExecutedPlan(doc.content, [ok |-> TRUE, plan |-> routed]),
                   current_step |-> 0, chat_history |-> h, history |-> h, log |-> <<>>,
                   first_chunk |-> TRUE, response_buffer |-> <<>>, items |-> 0]

\* the intent the loop dispatches next, "" when the plan is exhausted
NextIntent ==
    IF turn.pc = "loop" /\ turn.current_step < Len(turn.plan)
    THEN Dispatch(turn.plan[turn.current_step + 1]) ELSE ""

\* the log when the running step returns to the loop
Finish(log, d) ==
    [log EXCEPT ![Len(log)].finished = TRUE, ![Len(log)].after = d]

\* AppendAgent::execute up to its model call (append_agent.rs:23-76)
TurnAppendBegin ==
    /\ NextIntent = "Append"
    /\ turn' = [turn EXCEPT !.pc = "append_call", !.current_step = @ + 1,
                            !.log = Append(@, StepEntry("Append", StepSnapshot(doc, turn.start))),
                            !.first_chunk = TRUE, !.response_buffer = <<>>, !.items = 0]
    /\ UNCHANGED <<docVars, pipeVars, edit, planner, repo, holdback, extVars>>

\* stream_completion has answered (append_agent.rs:76-86)
TurnAppendCall(answered) ==
    /\ turn.pc = "append_call"
    /\ turn' = IF answered
               THEN [turn EXCEPT !.pc = "append_stream"]
               ELSE [turn EXCEPT !.pc = "loop",
                                 !.log = Finish([@ EXCEPT ![Len(@)].llm_failed = TRUE], doc)]
    /\ UNCHANGED <<docVars, pipeVars, edit, planner, repo, holdback, extVars>>

\* one item of the stream (append_agent.rs:88-102): a chunk is appended and
\* emitted, an error item is skipped
TurnAppendItem(item) ==
    /\ turn.pc = "append_stream"
    /\ turn.items < MaxStreamItems
    /\ LET processed == ReplaceAll(item.chunk, <<"\t">>, FourSpaces)
           d1 == IF turn.first_chunk THEN ensure_newlines(doc, 2) ELSE doc
           d2 == append_content(d1, processed)
       IN  IF item.ok
           THEN /\ doc' = d2
                /\ last_event' = DocumentUpdate(d2)
                /\ turn' = [turn EXCEPT !.items = @ + 1, !.first_chunk = FALSE,
                                        !.response_buffer = @ \o processed,
                                        !.log[Len(turn.log)].delivered = TRUE]
           ELSE /\ turn' = [turn EXCEPT !.items = @ + 1,
                                        !.log[Len(turn.log)].stream_failed = TRUE,
                                        !.log[Len(turn.log)].failed_after_content =
                                            turn.log[Len(turn.log)].delivered]
                /\ UNCHANGED <<doc, last_event>>
    /\ UNCHANGED <<last_op, ops, asr_cancellation_token, processing_cancellation_token,
                   is_paused, current_recording_id, holdback_deadline,
                   pending_transcript, tasks, cmds, edit, planner, repo, holdback, extVars>>

\* the stream has ended (append_agent.rs:104-135)
TurnAppendEnd ==
    /\ turn.pc = "append_stream"
    /\ LET response == CleanResponse(turn.response_buffer)
       IN  turn' = [turn EXCEPT
                       !.pc = "loop", !.response_buffer = <<>>, !.items = 0,
                       !.chat_history = IF response # <<>>
                                        THEN Truncate(PushExchange(@), max_history) ELSE @,
                       !.log = Finish([@ EXCEPT ![Len(@)].finalised = (response # <<>>)], doc)]
    /\ UNCHANGED <<docVars, pipeVars, edit, planner, repo, holdback, extVars>>

\* EditAgent::execute up to its first model call (edit_agent.rs:24-78)
TurnEditBegin ==
    /\ NextIntent = "Edit"
    /\ edit' = [EditIdle EXCEPT !.pc = "call",
                                !.prompt_doc = StepSnapshot(doc, turn.start).content]
    /\ turn' = [turn EXCEPT !.pc = "edit", !.current_step = @ + 1,
                            !.log = Append(@, StepEntry("Edit", StepSnapshot(doc, turn.start)))]
    /\ UNCHANGED <<docVars, pipeVars, planner, repo, holdback, extVars>>

\* EditAgent::execute returns: finalize or finalize_no_save have pushed the
\* exchange (edit_agent.rs:107-120, 186-211)
TurnEditEnd ==
    /\ turn.pc = "edit"
    /\ edit.pc = "done"
    /\ turn' = [turn EXCEPT
                   !.pc = "loop",
                   !.chat_history = IF edit.finalized # "none"
                                    THEN Truncate(PushExchange(@), max_history) ELSE @,
                   !.log = Finish([@ EXCEPT ![Len(@)].llm_failed = edit.llm_failed,
                                            ![Len(@)].finalised = (edit.finalized = "finalize")],
                                  doc)]
    /\ edit' = EditIdle
    /\ UNCHANGED <<docVars, pipeVars, planner, repo, holdback, extVars>>

\* GrepAgent::execute up to its model call (grep_agent.rs:23-63)
TurnGrepBegin ==
    /\ NextIntent = "Grep"
    /\ turn' = [turn EXCEPT !.pc = "grep_call", !.current_step = @ + 1,
                            !.log = Append(@, StepEntry("Grep", StepSnapshot(doc, turn.start)))]
    /\ UNCHANGED <<docVars, pipeVars, edit, planner, repo, holdback, extVars>>

\* the model has answered and the replacement is applied to the latest
\* document (grep_agent.rs:63-128)
TurnGrepCall(answered, response) ==
    /\ turn.pc = "grep_call"
    /\ \E g \in {grep_parse(Lines(response), [find |-> <<>>, replace |-> <<>>])} :
       \E new_doc \in {IF answered /\ g.find # <<>>
                       THEN ReplaceAll(doc.content, g.find, g.replace) ELSE doc.content} :
           /\ doc' = IF new_doc # doc.content THEN reset(doc, new_doc) ELSE doc
           /\ last_event' = IF new_doc # doc.content THEN DocumentUpdate(doc') ELSE last_event
           /\ turn' = [turn EXCEPT
                          !.pc = "loop",
                          !.chat_history = IF new_doc # doc.content
                                           THEN Truncate(PushExchange(@), max_history) ELSE @,
                          !.log = Finish([@ EXCEPT ![Len(@)].llm_failed = ~answered,
                                                   ![Len(@)].finalised = (new_doc # doc.content)],
                                         doc')]
    /\ UNCHANGED <<last_op, ops, asr_cancellation_token, processing_cancellation_token,
                   is_paused, current_recording_id, holdback_deadline,
                   pending_transcript, tasks, cmds, edit, planner, repo, holdback, extVars>>

\* UndoAgent::execute (undo_agent.rs:18-86): nothing happens without a
\* recording path, with fewer than two commits or when the rollback fails;
\* otherwise the document is reset to the restored content
TurnUndo(outcome) ==
    /\ NextIntent = "Undo"
    /\ doc' = IF outcome.restored THEN reset(doc, outcome.content) ELSE doc
    /\ last_event' = IF outcome.restored THEN DocumentUpdate(doc') ELSE last_event
    /\ turn' = [turn EXCEPT
                   !.current_step = @ + 1,
                   !.chat_history = IF outcome.restored THEN PushExchange(@) ELSE @,
                   !.log = Finish(Append(@, [StepEntry("Undo", NoSnapshot)
                                             EXCEPT !.finalised = outcome.restored]), doc')]
    /\ UNCHANGED <<last_op, ops, asr_cancellation_token, processing_cancellation_token,
                   is_paused, current_recording_id, holdback_deadline,
                   pending_transcript, tasks, cmds, edit, planner, repo, holdback, extVars>>

\* ClearAgent::execute (clear_agent.rs:18-47)
TurnClear ==
    /\ NextIntent = "Clear"
    /\ doc' = reset(doc, <<>>)
    /\ last_event' = DocumentUpdate(doc')
    /\ turn' = [turn EXCEPT
                   !.current_step = @ + 1,
                   !.chat_history = PushExchange(@),
                   !.log = Finish(Append(@, [StepEntry("Clear", NoSnapshot)
                                             EXCEPT !.finalised = TRUE]), doc')]
    /\ UNCHANGED <<last_op, ops, asr_cancellation_token, processing_cancellation_token,
                   is_paused, current_recording_id, holdback_deadline,
                   pending_transcript, tasks, cmds, edit, planner, repo, holdback, extVars>>

\* the NO-OP arm of the dispatch (transcript_processor.rs:261-271)
TurnNoOp ==
    /\ NextIntent = "NoOp"
    /\ turn' = [turn EXCEPT
                   !.current_step = @ + 1,
                   !.chat_history = IF Len(turn.plan) = 1 THEN PushExchange(@) ELSE @,
                   !.log = Finish(Append(@, StepEntry("NoOp", NoSnapshot)), doc)]
    /\ UNCHANGED <<docVars, pipeVars, edit, planner, repo, holdback, extVars>>

\* the loop is over: the blackboard's history is written back and cut to
\* MAX_HISTORY (transcript_processor.rs:288-298)
TurnWriteBack ==
    /\ turn.pc = "loop"
    /\ turn.current_step = Len(turn.plan)
    /\ turn' = [turn EXCEPT !.pc = "done", !.history = Truncate(turn.chat_history, MAX_HISTORY)]
    /\ UNCHANGED <<docVars, pipeVars, edit, planner, repo, holdback, extVars>>

NextTurn ==
    \/ TurnAppendBegin
    \/ \E answered \in BOOLEAN : TurnAppendCall(answered)
    \/ \E item \in StreamItems : TurnAppendItem(item)
    \/ TurnAppendEnd
    \/ TurnEditBegin
    \/ \E answered \in BOOLEAN, response \in TurnEditResponses : EditFirstCall(answered, response)
    \/ EditApply
    \/ \E answered \in BOOLEAN, response \in TurnEditResponses : EditRetryCall(answered, response)
    \/ \E c \in TurnManualContents : EditManualEdit(c)
    \/ TurnEditEnd
    \/ TurnGrepBegin
    \/ \E answered \in BOOLEAN, response \in GrepResponses : TurnGrepCall(answered, response)
    \/ \E outcome \in UndoOutcomes : TurnUndo(outcome)
    \/ TurnClear
    \/ TurnNoOp
    \/ TurnWriteBack

SpecTurn == InitTurn /\ [][NextTurn]_vars

EditingIntents == {"Append", "Edit", "Grep"}

\* C13: within one turn the steps run strictly in plan order, a step starts
\* only after the step before it has finished, and every editing step reads
\* a snapshot no older than the document every earlier step left behind.
C13_StepsSequentialAndSeeEarlierEdits ==
    /\ Len(turn.log) = turn.current_step
    /\ \A k \in 1..Len(turn.log) :
           /\ turn.log[k].intent = Dispatch(turn.plan[k])
           /\ k < Len(turn.log) => turn.log[k].finished
           /\ \A j \in 1..(k - 1) :
                  turn.log[k].intent \in EditingIntents
                      => turn.log[k].read.version >= turn.log[j].after.version

\* an editing step has started after an earlier step of the same turn
\* changed the document
C13_Witness ==
    /\ Len(turn.log) = 2
    /\ turn.log[2].intent = "Edit"
    /\ turn.log[1].intent = "Append"
    /\ turn.log[1].delivered
    /\ turn.log[1].after.version > turn.start.version
    /\ turn.log[2].read = turn.log[1].after

\* C14: a model transport failure in one step aborts only that step: when
\* the turn is over every step of the plan has been executed, and an APPEND
\* step whose stream failed after delivering content has been finalised.
C14_FailureAbortsOnlyItsStep ==
    /\ turn.pc = "done" => Len(turn.log) = Len(turn.plan)
    /\ \A k \in 1..Len(turn.log) :
           ( /\ turn.log[k].intent = "Append"
             /\ turn.log[k].finished
             /\ turn.log[k].failed_after_content )
               => turn.log[k].finalised

\* C19: the blackboard's chat history and the shared history hold at most
\* six messages in every state of a turn.
C19_ChatHistoryAtMostSix ==
    turn.pc # "idle" => (Len(turn.chat_history) <= 6 /\ Len(turn.history) <= 6)

(***************************************************************************)
(* SpecCommit: the commit tasks of one recording                           *)
(*   pipeline/state_updater.rs: update_state_and_git (110-176)             *)
(* repo holds the recording's document file (disk), the content and the    *)
(* messages of the history store's commits (head, gitlog), the state       *)
(* store's document and commit-message ring with what was last persisted,  *)
(* the commit tasks spawned so far, and pushed: every message handed to    *)
(* add_git_history, in call order.  The history store and the state store  *)
(* are not part of the sources; their operations follow the specification. *)
(***************************************************************************)

\* the largest number of finalisations, each spawning one commit task
MaxFinalisations == 2

\* the commit-message ring retains the newest ten messages
RingCapacity == 10

\* StateManager::add_git_history: push, retaining the newest RingCapacity
add_git_history(ring, message) == Truncate(Append(ring, message), RingCapacity)

\* GitManager::commit_existing: the working tree becomes the new HEAD
commit_existing(r, message) ==
    [r EXCEPT !.head = r.disk, !.gitlog = Append(@, message)]

\* StateManager::persist_state: the state store is written to the database
persist_state(r) == [r EXCEPT !.persisted = [ring |-> r.ring, document |-> r.state_doc]]

\* the message that goes onto the ring: the fallback text
RingEntryFallback(commit_msg) == "Document updated"

\* the message that goes onto the ring: commit_msg.clone() (state_updater.rs:165)
RingEntry(commit_msg) == commit_msg

\* the commit task's message (state_updater.rs:146-154)
CommitMessageOf(generated) == IF generated THEN "m" ELSE "Document updated"

StopAt(r, t, step) ==
    [r EXCEPT !.tasks[t].pc = "failed", !.tasks[t].failed_at = step]

\* the tail of the commit task with the ring pushed before the outcome of the
\* commit is looked at
CommitTailPushesFirst(r, t, committed, persist_ok) ==
    LET pushed == [r EXCEPT !.ring = add_git_history(@, RingEntry(r.tasks[t].commit_msg)),
                            !.pushed = Append(@, r.tasks[t].commit_msg)]
    IN  IF committed
        THEN [(IF persist_ok THEN persist_state(commit_existing(pushed, r.tasks[t].commit_msg))
               ELSE commit_existing(pushed, r.tasks[t].commit_msg))
              EXCEPT !.tasks[t].pc = "done"]
        ELSE StopAt(pushed, t, "commit")

\* the tail of the commit task (state_updater.rs:157-175): commit, and only
\* after a successful commit the ring push and the persist
CommitTail(r, t, committed, persist_ok) ==
    LET after  == commit_existing(r, r.tasks[t].commit_msg)
        pushed == [after EXCEPT !.ring = add_git_history(@, RingEntry(r.tasks[t].commit_msg)),
                                !.pushed = Append(@, r.tasks[t].commit_msg)]
    IN  IF committed
        THEN [(IF persist_ok THEN persist_state(pushed) ELSE pushed) EXCEPT !.tasks[t].pc = "done"]
        ELSE StopAt(r, t, "commit")

\* the ring before the first finalisation: empty, or nine earlier messages
InitialRings == { <<>>, [i \in 1..(RingCapacity - 1) |-> "old"] }

\* a recording is active, its file and its HEAD hold the empty document
InitCommit ==
    /\ doc = DocumentStateNew(<<>>)
    /\ last_op = NoOp
    /\ ops = 0
    /\ PipelineReady
    /\ edit = EditIdle
    /\ ExtIdle
    /\ planner = PlannerIdle
    /\ turn = TurnIdle
    /\ holdback = HoldbackIdle
    /\ \E ring \in InitialRings :
           repo = [pc |-> "recording", disk |-> <<>>, head |-> <<>>, gitlog |-> ring,
                   state_doc |-> <<>>, ring |-> ring, pushed |-> ring,
                   persisted |-> [ring |-> ring, document |-> <<>>],
                   tasks |-> <<>>]

\* an agent has changed the document and calls update_state_and_git
\* (state_updater.rs:12-26, 110-122): the state store takes the snapshot and
\* the commit task is spawned with it
Finalise(chunk) ==
    /\ repo.pc = "recording"
    /\ Len(repo.tasks) < MaxFinalisations
    /\ doc' = append_content(doc, chunk)
    /\ repo' = [repo EXCEPT !.state_doc = doc'.content,
                            !.tasks = Append(@, [pc |-> "write", content |-> doc'.content,
                                                 commit_msg |-> "", failed_at |-> ""])]
    /\ UNCHANGED <<last_op, ops, pipeVars, edit, planner, turn, holdback, extVars>>

\* std::fs::write of the document file (state_updater.rs:122-132)
CommitWrite(t, written) ==
    /\ t \in DOMAIN repo.tasks
    /\ repo.tasks[t].pc = "write"
    /\ repo' = IF written
               THEN [repo EXCEPT !.disk = repo.tasks[t].content, !.tasks[t].pc = "diff"]
               ELSE StopAt(repo, t, "write")
    /\ UNCHANGED <<docVars, pipeVars, edit, planner, turn, holdback, extVars>>

\* git_mgr.get_diff (state_updater.rs:135-143)
CommitDiff(t, diffed) ==
    /\ t \in DOMAIN repo.tasks
    /\ repo.tasks[t].pc = "diff"
    /\ repo' = IF diffed
               THEN [repo EXCEPT !.tasks[t].pc = "message"]
               ELSE StopAt(repo, t, "diff")
    /\ UNCHANGED <<docVars, pipeVars, edit, planner, turn, holdback, extVars>>

\* generate_commit_message has returned (state_updater.rs:146-154)
CommitMessage(t, generated) ==
    /\ t \in DOMAIN repo.tasks
    /\ repo.tasks[t].pc = "message"
    /\ repo' = [repo EXCEPT !.tasks[t].pc = "commit",
                            !.tasks[t].commit_msg = CommitMessageOf(generated)]
    /\ UNCHANGED <<docVars, pipeVars, edit, planner, turn, holdback, extVars>>

\* commit_existing, add_git_history and persist_state (state_updater.rs:157-175)
CommitCommit(t, committed, persist_ok) ==
    /\ t \in DOMAIN repo.tasks
    /\ repo.tasks[t].pc = "commit"
    /\ repo' = CommitTail(repo, t, committed, persist_ok)
    /\ UNCHANGED <<docVars, pipeVars, edit, planner, turn, holdback, extVars>>

NextCommit ==
    \/ \E chunk \in {<<"x">>} : Finalise(chunk)
    \/ \E t \in 1..MaxFinalisations, written \in BOOLEAN : CommitWrite(t, written)
    \/ \E t \in 1..MaxFinalisations, diffed \in BOOLEAN : CommitDiff(t, diffed)
    \/ \E t \in 1..MaxFinalisations, generated \in BOOLEAN : CommitMessage(t, generated)
    \/ \E t \in 1..MaxFinalisations, committed \in BOOLEAN, persist_ok \in BOOLEAN :
           CommitCommit(t, committed, persist_ok)

SpecCommit == InitCommit /\ [][NextCommit]_vars

\* a commit task that has written the file and has not yet committed
InSequence(task) == task.pc \in {"diff", "message", "commit"}

\* C15: the commit tasks of one recording are serialised: no two of them are
\* inside their write-diff-commit sequence at the same time, and once all of
\* them have finished successfully the document file and the HEAD commit
\* hold the content of the latest finalisation.
C15_CommitTasksSerialised ==
    /\ \A t1, t2 \in DOMAIN repo.tasks :
           t1 < t2 => ~(InSequence(repo.tasks[t1]) /\ InSequence(repo.tasks[t2]))
    /\ ( /\ repo.tasks # <<>>
         /\ \A t \in DOMAIN repo.tasks : repo.tasks[t].pc = "done" )
       => /\ repo.disk = repo.tasks[Len(repo.tasks)].content
          /\ repo.head = repo.tasks[Len(repo.tasks)].content

\* C16: the step in which a commit task fails (writing the file, computing
\* the diff, or the commit) pushes nothing onto the ring, persists nothing,
\* and leaves the in-memory document and its version as they were.
C16_FailedCommitLeavesStateAlone ==
    [][ \A t \in DOMAIN repo.tasks :
            (repo.tasks[t].pc # "failed" /\ t \in DOMAIN repo'.tasks /\ repo'.tasks[t].pc = "failed")
                => /\ repo'.ring = repo.ring
                   /\ repo'.persisted = repo.persisted
                   /\ repo'.state_doc = repo.state_doc
                   /\ doc' = doc ]_vars

\* a commit has failed after an earlier task's message went onto the ring
C16_Witness ==
    /\ Len(repo.tasks) = 2
    /\ repo.tasks[1].pc = "done"
    /\ repo.tasks[2].pc = "failed"
    /\ repo.tasks[2].failed_at = "commit"
    /\ repo.ring = <<repo.tasks[1].commit_msg>>
    /\ repo.persisted.ring = repo.ring

MaxFragments == 3
\* the clock stops here
MaxTime == 900

HOLDBACK_MS == 450

\* how far the clock moves between two events
Ticks == {150, 450}

AsrFragments == { <<>>, <<"t">>, <<"u">> }

RECURSIVE Concat(_)
Concat(ss) == IF ss = <<>> THEN <<>> ELSE Head(ss) \o Concat(Tail(ss))

\* the ASR branch with the pending text replaced by the new fragment
AcceptFragmentOverwrites(pending, transcript) == transcript

\* pending_transcript.push_str(&transcript) (pipeline/mod.rs:599)
AcceptFragment(pending, transcript) == pending \o transcript

\* run_pipeline before its loop, the clock at 0
InitAsr ==
    /\ doc = DocumentStateNew(<<>>)
    /\ last_op = NoOp
    /\ ops = 0
    /\ PipelineReady
    /\ edit = EditIdle
    /\ ExtIdle
    /\ planner = PlannerIdle
    /\ turn = TurnIdle
    /\ repo = RepoIdle
    /\ holdback = [HoldbackIdle EXCEPT !.pc = "running"]

\* time passes
Tick(ms) ==
    /\ holdback.pc = "running"
    /\ holdback.now + ms <= MaxTime
    /\ holdback' = [holdback EXCEPT !.now = @ + ms]
    /\ UNCHANGED <<docVars, pipeVars, edit, planner, turn, repo, extVars>>

\* a transcript arrives from the ASR service (pipeline/mod.rs:595-604)
AsrFragment(transcript) ==
    /\ holdback.pc = "running"
    /\ holdback.received < MaxFragments
    /\ IF asr_cancellation_token /\ ~is_paused
       THEN /\ pending_transcript' = AcceptFragment(pending_transcript, transcript)
            /\ holdback_deadline' = TRUE
            /\ holdback' = [holdback EXCEPT !.received = @ + 1,
                                            !.deadline = holdback.now + HOLDBACK_MS,
                                            !.since_fire = Append(@, transcript),
                                            !.accepted = Append(@, transcript),
                                            !.last_arrival = holdback.now]
       ELSE /\ holdback' = [holdback EXCEPT !.received = @ + 1]
            /\ UNCHANGED <<pending_transcript, holdback_deadline>>
    /\ UNCHANGED <<asr_cancellation_token, processing_cancellation_token, is_paused,
                   current_recording_id, tasks, last_event, cmds, docVars,
                   edit, planner, turn, repo, extVars>>

\* the timeout branch with the holdback deadline met (pipeline/mod.rs:606-679)
HoldbackTimer ==
    /\ holdback.pc = "running"
    /\ holdback_deadline
    /\ holdback.now >= holdback.deadline
    /\ pending_transcript' = <<>>
    /\ holdback_deadline' = FALSE
    /\ holdback' = [holdback EXCEPT
                       !.deadline = -1,
                       !.since_fire = <<>>,
                       !.fires = @ + 1,
                       !.turns = IF pending_transcript = <<>> THEN @
                                 ELSE Append(@, pending_transcript),
                       !.last_fire = [fragments |-> holdback.since_fire,
                                      spawned |-> pending_transcript # <<>>]]
    /\ IF pending_transcript = <<>>
       THEN UNCHANGED <<tasks, processing_cancellation_token>>
       ELSE /\ tasks' = Append(tasks, NewTask(current_recording_id))
            /\ processing_cancellation_token' = Len(tasks) + 1
    /\ UNCHANGED <<asr_cancellation_token, is_paused, current_recording_id,
                   last_event, cmds, docVars, edit, planner, turn, repo, extVars>>

NextAsr ==
    \/ \E ms \in Ticks : Tick(ms)
    \/ \E transcript \in AsrFragments : AsrFragment(transcript)
    \/ HoldbackTimer
    \/ \E file \in Files : StartRecording("r1", file)
    \/ PauseRecording
    \/ ResumeRecording
    \/ StopRecording

SpecAsr == InitAsr /\ [][NextAsr]_vars

\* what holds of the buffer between two firings: it is the concatenation of
\* the fragments accepted since the last firing, the deadline is 450 ms
\* after the arrival of the last of them, and the turns produced so far
\* followed by the buffer are all accepted fragments, in arrival order
PendingIsWhatWasAccepted ==
    /\ pending_transcript = Concat(holdback.since_fire)
    /\ holdback_deadline <=> holdback.since_fire # <<>>
    /\ holdback_deadline => holdback.deadline = holdback.last_arrival + 450
    /\ Concat(holdback.turns) \o pending_transcript = Concat(holdback.accepted)
    /\ (holdback.fires > 0 /\ holdback.last_fire.spawned)
           => holdback.last_fire.fragments # <<>>

\* C17 as stated: every accepted fragment is appended to the pending buffer
\* and puts the deadline 450 ms after its arrival, and every firing of the
\* deadline produces exactly one turn, whose text is the concatenation of the
\* fragments accepted since the previous firing, and empties the buffer.
C17_EveryFiringYieldsOneTurn ==
    /\ PendingIsWhatWasAccepted
    /\ holdback.fires = Len(holdback.turns)

\* C17, amended: as above, but a firing produces one turn when the
\* concatenated text is non-empty and no turn when it is empty.
C17_FiringYieldsTurnUnlessEmpty ==
    /\ PendingIsWhatWasAccepted
    /\ Len(holdback.turns) <= holdback.fires
    /\ holdback.fires > 0
           => (holdback.last_fire.spawned <=> Concat(holdback.last_fire.fragments) # <<>>)
    /\ \A i \in 1..Len(holdback.turns) : holdback.turns[i] # <<>>

\* a firing has turned two fragments into one turn, and a later firing that
\* covered only an empty fragment has produced none
C17_Witness ==
    /\ holdback.turns = << <<"t", "u">> >>
    /\ holdback.fires = 2
    /\ holdback.accepted = << <<"t">>, <<"u">>, <<>> >>
    /\ pending_transcript = <<>>
    /\ ~holdback.last_fire.spawned

(***************************************************************************)
(* SpecUpdate: the turns of one recording with the state updater's todo    *)
(* maintenance                                                             *)
(*   pipeline/mod.rs: run_pipeline (AddTodo 544-559, timeout branch        *)
(*     606-679)                                                            *)
(*   pipeline/transcript_processor.rs: process_transcript                  *)
(*   pipeline/state_updater.rs: update_state_and_git (12-108)              *)
(*   todo_agent.rs: TodoAgent::maintain_todos                              *)
(* upd holds the running turn (its text, plan and step, whether its entry  *)
(* normalised the document, whether one of its steps wrote to it, and the  *)
(* number of tasks its steps spawned), the state store's todos, and the    *)
(* todo-maintenance tasks spawned so far.  An agent step is one action;    *)
(* the tasks run beside the turn and the scheduler.  EDIT and UNDO steps   *)
(* are left to SpecTurn and SpecHistory.  The state store is not part of   *)
(* the sources; its todo operations follow the specification.              *)
(***************************************************************************)

\* turns fired in one behaviour
MaxTurns == 1

\* the number of active todos above which the list counts as too long
TodoCap == 10

\* StateManager::add_todo
add_todo(todos, id) == Append(todos, [id |-> id, completed |-> FALSE])

RECURSIVE complete_todo(_, _)
\* StateManager::complete_todo
complete_todo(todos, id) ==
    IF todos = <<>> THEN <<>>
    ELSE <<IF Head(todos).id = id THEN [Head(todos) EXCEPT !.completed = TRUE] ELSE Head(todos)>>
             \o complete_todo(Tail(todos), id)

\* StateManager::delete_todo
delete_todo(todos, id) == SelectSeq(todos, LAMBDA t : t.id # id)

\* StateManager::remove_completed_todos
remove_completed_todos(todos) == SelectSeq(todos, LAMBDA t : ~t.completed)

\* current_todos.iter().filter(|t| !t.completed).count() (state_updater.rs:53)
ActiveCount(todos) == Len(SelectSeq(todos, LAMBDA t : ~t.completed))

RECURSIVE ApplyOperations(_, _)
\* for op in operations (state_updater.rs:63-92); an operation on an id the
\* store does not hold is logged and skipped
ApplyOperations(st, operations) ==
    IF operations = <<>> THEN st
    ELSE LET op == Head(operations)
             next ==
                 CASE op.action = "complete" ->
                          [st EXCEPT !.todos = complete_todo(@, op.todo_id)]
                   [] op.action = "delete" ->
                          [st EXCEPT !.todos = delete_todo(@, op.todo_id)]
                   [] op.action = "add" ->
                          [st EXCEPT !.todos = add_todo(@, st.next_id), !.next_id = @ + 1]
                   [] OTHER -> st
         IN  ApplyOperations(next, Tail(operations))

\* the Ok(operations) arm (state_updater.rs:59-101): nothing at all for an
\* empty list, else the operations and then remove_completed_todos
MaintainResult(st, operations) ==
    IF operations = <<>> THEN st
    ELSE LET applied == ApplyOperations(st, operations)
         IN  [applied EXCEPT !.todos = remove_completed_todos(@)]

\* TodoAgent::maintain_todos returns before its model call for an empty
\* document without todos (todo_agent.rs:48-50)
MaintainSkips(current_doc, current_todos) ==
    Trim(current_doc) = <<>> /\ current_todos = <<>>

RECURSIVE Deletes(_, _)
\* delete operations for the first n of the todos shown to the model
Deletes(seen, n) ==
    IF n = 0 \/ seen = <<>> THEN <<>>
    ELSE <<[action |-> "delete", todo_id |-> Head(seen).id]>> \o Deletes(Tail(seen), n - 1)

\* what maintain_todos can return for the todos it was shown (todo_agent.rs:
\* 69-117): nothing (also on a timeout, a model error or unparsable JSON),
\* one add, one complete, or deletes that cut the list back to TodoCap
TodoOperations(seen) ==
    { <<>>, <<[action |-> "add", todo_id |-> 0]>> }
        \cup (IF seen = <<>> THEN {}
              ELSE { <<[action |-> "complete", todo_id |-> Head(seen).id]>>,
                     Deletes(seen, IF Len(seen) > TodoCap THEN Len(seen) - TodoCap ELSE 1) })

\* the todos the state store loads for the recording: none, or TodoCap of them
InitialTodos == { <<>>, [i \in 1..TodoCap |-> [id |-> i, completed |-> FALSE]] }

UpdateTexts == { <<>>, <<" ">>, <<"t">> }

UpdatePlans ==
    LET tags == {"APPEND", "GREP", "CLEAR", "NO-OP"}
    IN  UNION { [1..k -> { PlanStep(<<tag>>, <<"x">>) : tag \in tags }] : k \in 1..MaxPlanSteps }

UpdateChunks == { <<" ">>, <<"x">> }

\* what the editor sends with UpdateDocument: a line indented with a tab
UpdateManualContents == { <<"\t", "a">> }

UpdateGrepResponses ==
    { <<"FIND:", " ", "a", "\n", "REPLACE:", " ", "x", "\t", "x">>,
      <<"o", "k">> }

\* update_state_and_git as seen from the step that calls it (state_updater.rs:
\* 22-48, 110-122): the focus task and the todo task are spawned, and the
\* commit task too when there is a recording path
SpawnStateTasks(u, content, recording) ==
    [u EXCEPT !.spawned = @ + (IF recording # "none" THEN 3 ELSE 2),
              !.tasks = Append(@, [pc |-> "spawned", content |-> content, seen |-> <<>>,
                                   before |-> 0, after |-> 0])]

\* run_pipeline before its loop; the state store holds the recording's todos
InitUpdate ==
    /\ doc = DocumentStateNew(<<>>)
    /\ last_op = NoOp
    /\ ops = 0
    /\ PipelineReady
    /\ edit = EditIdle
    /\ planner = PlannerIdle
    /\ turn = TurnIdle
    /\ repo = RepoIdle
    /\ holdback = HoldbackIdle
    /\ hist = HistIdle
    /\ agg = AggIdle
    /\ rt = RtIdle
    /\ MoreIdle
    /\ \E todos \in InitialTodos :
           upd = [UpdIdle EXCEPT !.todos = todos, !.next_id = Len(todos) + 1]

\* PipelineCommand::AddTodo (pipeline/mod.rs:544-559)
AddTodo ==
    /\ cmds < MaxCmds
    /\ cmds' = cmds + 1
    /\ upd' = IF current_recording_id # "none"
              THEN [upd EXCEPT !.todos = add_todo(@, upd.next_id), !.next_id = @ + 1]
              ELSE upd
    /\ UNCHANGED <<asr_cancellation_token, processing_cancellation_token, is_paused,
                   current_recording_id, holdback_deadline, pending_transcript,
                   tasks, last_event, docVars, edit, planner, turn, repo, holdback, hist, agg, rt, moreVars>>

\* the timeout branch with the holdback deadline met (pipeline/mod.rs:606-679)
\* for the pending text turn_text: an empty text is dropped, any other is
\* handed to process_transcript
FireTurn(turn_text) ==
    /\ asr_cancellation_token
    /\ upd.pc = "idle"
    /\ upd.turns < MaxTurns
    /\ upd' = IF turn_text = <<>>
              THEN [upd EXCEPT !.turns = @ + 1, !.cleared.on = FALSE]
              ELSE [upd EXCEPT !.turns = @ + 1, !.cleared.on = FALSE,
                               !.pc = "entered", !.transcript = turn_text,
                               !.recording = current_recording_id,
                               !.full_doc = <<>>, !.plan = <<>>, !.current_step = 0,
                               !.normalised = FALSE, !.changed = FALSE, !.spawned = 0]
    /\ UNCHANGED <<docVars, pipeVars, edit, planner, turn, repo, holdback, hist, agg, rt, moreVars>>

\* process_transcript up to its routers (transcript_processor.rs:39-116): the
\* snapshot and the tab normalisation
UpdateEnter ==
    /\ upd.pc = "entered"
    /\ LET normalise == Contains(doc.content, <<"\t">>)
           full_doc == ReplaceAll(doc.content, <<"\t">>, FourSpaces)
       IN  /\ doc' = IF normalise THEN reset(doc, full_doc) ELSE doc
           /\ last_event' = IF normalise THEN DocumentUpdate(doc') ELSE last_event
           /\ upd' = [upd EXCEPT !.pc = "routing", !.normalised = normalise,
                                  !.full_doc = full_doc]
    /\ UNCHANGED <<last_op, ops, asr_cancellation_token, processing_cancellation_token,
                   is_paused, current_recording_id, holdback_deadline, pending_transcript,
                   tasks, cmds, edit, planner, turn, repo, holdback, hist, agg, rt, moreVars>>

\* the plan is fixed (transcript_processor.rs:118-147); routed is what router
\* 1 planned
UpdatePlanned(routed) ==
    /\ upd.pc = "routing"
    /\ upd' = [upd EXCEPT !.pc = "loop", !.full_doc = <<>>,
                          !.plan = ExecutedPlan(upd.full_doc, [ok |-> TRUE, plan |-> routed])]
    /\ UNCHANGED <<docVars, pipeVars, edit, planner, turn, repo, holdback, hist, agg, rt, moreVars>>

\* the intent the step loop dispatches next, "" when the plan is exhausted
NextUpdateIntent ==
    IF upd.pc = "loop" /\ upd.current_step < Len(upd.plan)
    THEN Dispatch(upd.plan[upd.current_step + 1]) ELSE ""

\* the blackboard when a step returns to the loop
StepDone(u) == [u EXCEPT !.current_step = @ + 1, !.cleared.on = FALSE]

\* AppendAgent::execute (append_agent.rs:23-135) with a stream of one chunk
UpdateAppend(answered, chunk) ==
    /\ NextUpdateIntent = "Append"
    /\ IF answered
       THEN \E processed \in {ReplaceAll(chunk, <<"\t">>, FourSpaces)} :
            \E d \in {append_content(ensure_newlines(doc, 2), processed)} :
                /\ doc' = d
                /\ last_event' = DocumentUpdate(d)
                /\ upd' = [StepDone(IF CleanResponse(processed) # <<>>
                                    THEN SpawnStateTasks(upd, d.content, upd.recording)
                                    ELSE upd)
                           EXCEPT !.changed = TRUE]
       ELSE /\ upd' = StepDone(upd)
            /\ UNCHANGED <<doc, last_event>>
    /\ UNCHANGED <<last_op, ops, asr_cancellation_token, processing_cancellation_token,
                   is_paused, current_recording_id, holdback_deadline, pending_transcript,
                   tasks, cmds, edit, planner, turn, repo, holdback, hist, agg, rt, moreVars>>

\* GrepAgent::execute (grep_agent.rs:23-128)
UpdateGrep(answered, response) ==
    /\ NextUpdateIntent = "Grep"
    /\ \E g \in {grep_parse(Lines(response), [find |-> <<>>, replace |-> <<>>])} :
       \E new_doc \in {IF answered /\ g.find # <<>>
                       THEN ReplaceAll(doc.content, g.find, g.replace) ELSE doc.content} :
           IF new_doc # doc.content
           THEN /\ doc' = reset(doc, new_doc)
                /\ last_event' = DocumentUpdate(doc')
                /\ upd' = [StepDone(SpawnStateTasks(upd, new_doc, upd.recording))
                           EXCEPT !.changed = TRUE]
           ELSE /\ upd' = StepDone(upd)
                /\ UNCHANGED <<doc, last_event>>
    /\ UNCHANGED <<last_op, ops, asr_cancellation_token, processing_cancellation_token,
                   is_paused, current_recording_id, holdback_deadline, pending_transcript,
                   tasks, cmds, edit, planner, turn, repo, holdback, hist, agg, rt, moreVars>>

\* ClearAgent::execute (clear_agent.rs:18-47): the document is reset, every
\* todo of the store is deleted, update_state_and_git is called
UpdateClear ==
    /\ NextUpdateIntent = "Clear"
    /\ doc' = reset(doc, <<>>)
    /\ last_event' = DocumentUpdate(doc')
    /\ upd' = [StepDone(SpawnStateTasks([upd EXCEPT !.todos = <<>>], <<>>, upd.recording))
               EXCEPT !.changed = TRUE, !.cleared = [on |-> TRUE, cmds |-> cmds]]
    /\ UNCHANGED <<last_op, ops, asr_cancellation_token, processing_cancellation_token,
                   is_paused, current_recording_id, holdback_deadline, pending_transcript,
                   tasks, cmds, edit, planner, turn, repo, holdback, hist, agg, rt, moreVars>>

\* the NO-OP arm of the dispatch (transcript_processor.rs:262-271)
UpdateNoOp ==
    /\ NextUpdateIntent = "NoOp"
    /\ upd' = StepDone(upd)
    /\ UNCHANGED <<docVars, pipeVars, edit, planner, turn, repo, holdback, hist, agg, rt, moreVars>>

\* the loop is over and process_transcript returns (transcript_processor.rs:
\* 284-347)
UpdateFinish ==
    /\ upd.pc = "loop"
    /\ upd.current_step = Len(upd.plan)
    /\ upd' = [upd EXCEPT !.pc = "idle"]
    /\ UNCHANGED <<docVars, pipeVars, edit, planner, turn, repo, holdback, hist, agg, rt, moreVars>>

\* the todo task up to the model call of maintain_todos (state_updater.rs:
\* 48-58, todo_agent.rs:39-72): the todos are read when the task runs
MaintainBegin(t) ==
    /\ t \in DOMAIN upd.tasks
    /\ upd.tasks[t].pc = "spawned"
    /\ upd' = IF MaintainSkips(upd.tasks[t].content, upd.todos)
              THEN [upd EXCEPT !.tasks[t].pc = "done",
                               !.tasks[t].before = ActiveCount(upd.todos),
                               !.tasks[t].after = ActiveCount(upd.todos)]
              ELSE [upd EXCEPT !.tasks[t].pc = "called",
                               !.tasks[t].seen = upd.todos,
                               !.tasks[t].before = ActiveCount(upd.todos)]
    /\ UNCHANGED <<docVars, pipeVars, edit, planner, turn, repo, holdback, hist, agg, rt, moreVars>>

\* maintain_todos has returned and its operations are applied to the store
\* (state_updater.rs:58-107)
MaintainApply(t, operations) ==
    /\ t \in DOMAIN upd.tasks
    /\ upd.tasks[t].pc = "called"
    /\ operations \in TodoOperations(upd.tasks[t].seen)
    /\ \E st \in {MaintainResult([todos |-> upd.todos, next_id |-> upd.next_id], operations)} :
           upd' = [upd EXCEPT !.todos = st.todos, !.next_id = st.next_id,
                              !.tasks[t].pc = "done", !.tasks[t].seen = <<>>,
                              !.tasks[t].after = ActiveCount(st.todos)]
    /\ UNCHANGED <<docVars, pipeVars, edit, planner, turn, repo, holdback, hist, agg, rt, moreVars>>

NextUpdate ==
    \/ \E file \in Files : StartRecording("r1", file)
    \/ \E c \in UpdateManualContents : UpdateDocument(c)
    \/ AddTodo
    \/ \E turn_text \in UpdateTexts : FireTurn(turn_text)
    \/ UpdateEnter
    \/ \E routed \in UpdatePlans : UpdatePlanned(routed)
    \/ \E answered \in BOOLEAN, chunk \in UpdateChunks : UpdateAppend(answered, chunk)
    \/ \E answered \in BOOLEAN, response \in UpdateGrepResponses : UpdateGrep(answered, response)
    \/ UpdateClear
    \/ UpdateNoOp
    \/ UpdateFinish
    \/ \E t \in DOMAIN upd.tasks : MaintainBegin(t)
    \/ \E t \in DOMAIN upd.tasks :
           \E operations \in TodoOperations(upd.tasks[t].seen) : MaintainApply(t, operations)

SpecUpdate == InitUpdate /\ [][NextUpdate]_vars

(***************************************************************************)
(* Properties of the turns and the todo maintenance                        *)
(***************************************************************************)

\* C21: whenever the number of active todos exceeds ten, it is back to at
\* most ten by the end of the todo maintenance of the next turn: a todo task
\* that found more than ten active todos leaves at most ten behind.
C21_TodoCapRestored ==
    \A t \in DOMAIN upd.tasks :
        (upd.tasks[t].pc = "done" /\ upd.tasks[t].before > TodoCap)
            => upd.tasks[t].after <= TodoCap

\* a CLEAR step has finished and no step, turn or command has followed it
AfterClear == upd.cleared.on /\ upd.cleared.cmds = cmds

\* C22: after a CLEAR step the document and the todo set are empty and stay
\* empty until the next step, turn or command: no todo produced by the todo
\* maintenance of an earlier step or turn reappears after the clear.
C22_ClearStaysClear ==
    AfterClear => (doc.content = <<>> /\ upd.todos = <<>>)

\* the steps of the turn are all done and every one of them was a NO-OP
NoOpTurnOver ==
    /\ upd.pc \in {"loop", "idle"}
    /\ upd.plan # <<>>
    /\ upd.current_step = Len(upd.plan)
    /\ \A k \in DOMAIN upd.plan : Dispatch(upd.plan[k]) = "NoOp"

\* C23: a turn whose plan consists only of NO-OP steps leaves the document
\* content and version unchanged and starts no commit, todo maintenance or
\* focus refresh.
C23_NoOpTurnChangesNothing ==
    NoOpTurnOver => (~upd.normalised /\ ~upd.changed /\ upd.spawned = 0)

\* C24: a turn whose text consists only of whitespace never mutates the
\* document: none of its steps changes the document content or version.
C24_WhitespaceTurnWritesNothing ==
    (upd.transcript # <<>> /\ Trim(upd.transcript) = <<>>) => ~upd.changed

\* C25: after any scheduler command or agent step has finished, the document
\* content contains no tab character.
C25_NoTabInDocument ==
    ~Contains(doc.content, <<"\t">>)

(***************************************************************************)
(* SpecHistory: rollbacks of one recording                                 *)
(*   pipeline/mod.rs: run_pipeline (UpdateDocument 348-386,                *)
(*     RollbackToCommit 409-433)                                           *)
(*   agents/editor/undo_agent.rs: UndoAgent::execute                       *)
(* hist holds the commits of the recording's history store, newest first,  *)
(* each with its hash and the document it committed; trip follows two      *)
(* rollbacks handled one after the other; undo holds the locals of one     *)
(* UndoAgent::execute.  A hash is one token.  The history store is not     *)
(* part of the sources: a rollback reads the content committed under a     *)
(* hash and fails for a hash the history does not hold, and the history    *)
(* only grows.  A recording is active and its workspace is open.           *)
(***************************************************************************)

\* commands handled in one behaviour of SpecHistory
MaxHistoryCmds == 3

HashNames == <<"h1", "h2", "h3", "h4", "h5", "h6">>
\* the hash of the n-th commit made
HashOf(n) == <<HashNames[n]>>

\* the hashes of a history, newest first
Hashes(commits) == { commits[i].hash : i \in DOMAIN commits }

\* GitManager::rollback: the content committed under commit_hash
rollback(commits, commit_hash) ==
    IF commit_hash \in Hashes(commits)
    THEN [ok |-> TRUE,
          content |-> (CHOOSE c \in { commits[i] : i \in DOMAIN commits } :
                           c.hash = commit_hash).content]
    ELSE [ok |-> FALSE, content |-> <<>>]

\* GitManager::get_history_with_hashes(path, limit): the newest limit commits
get_history_with_hashes(commits, limit) ==
    IF Len(commits) > limit THEN SubSeq(commits, 1, limit) ELSE commits

\* GitManager::commit_existing seen from the history: a new newest commit
commit_document(h, content) ==
    [h EXCEPT !.commits = <<[hash |-> HashOf(h.next_hash), content |-> content]>> \o @,
              !.next_hash = @ + 1]

\* the document after a rollback with the restored content appended to it
RestoreAppends(d, restored_content) == append_content(d, restored_content)

\* doc_service.reset(restored_content.clone()) (pipeline/mod.rs:418,
\* undo_agent.rs:61)
Restore(d, restored_content) == reset(d, restored_content)

\* target_hash.split_whitespace().next() (undo_agent.rs:57): the first word
\* of the text, <<>> when there is none
FirstWord(s) ==
    LET t == TrimStart(s)
        ws == { i \in DOMAIN t : IsWs(t[i]) }
    IN  IF ws = {} THEN t
        ELSE SubSeq(t, 1, (CHOOSE i \in ws : \A j \in ws : i <= j) - 1)

\* the hash UndoAgent rolls back to (undo_agent.rs:49-57) for the model's
\* output, answered telling whether stream_completion returned a stream
CleanHash(commits, answered, output) ==
    LET target_hash == IF answered THEN Trim(output) ELSE commits[2].hash
        word == FirstWord(target_hash)
    IN  IF word = <<>> THEN commits[2].hash ELSE word

\* the histories a recording can start with: no commit, one, or three
InitialHistories ==
    { <<>>,
      <<[hash |-> HashOf(1), content |-> <<"a">>]>>,
      <<[hash |-> HashOf(3), content |-> <<"a", "c">>],
        [hash |-> HashOf(2), content |-> <<"a", "b">>],
        [hash |-> HashOf(1), content |-> <<"a">>]>> }

\* the hashes a rollback is asked for: commits of the history and a stranger
RollbackHashes == { HashOf(n) : n \in 1..4 } \cup { <<"zz">> }

\* what the model streams to UndoAgent
UndoOutputs ==
    { <<>>, <<" ">>, <<"h1">>, <<"h2">>, <<" ", "h1", " ", "o", "k">>, <<"zz">> }

HistoryManualContents == { <<"a">>, <<"d">> }

\* a recording is active; the document is what its newest commit holds
InitHistory ==
    /\ last_op = NoOp
    /\ ops = 0
    /\ asr_cancellation_token = TRUE
    /\ processing_cancellation_token = 0
    /\ is_paused = FALSE
    /\ current_recording_id = "r1"
    /\ holdback_deadline = FALSE
    /\ pending_transcript = <<>>
    /\ tasks = <<>>
    /\ cmds = 0
    /\ edit = EditIdle
    /\ planner = PlannerIdle
    /\ turn = TurnIdle
    /\ repo = RepoIdle
    /\ holdback = HoldbackIdle
    /\ upd = UpdIdle
    /\ agg = AggIdle
    /\ rt = RtIdle
    /\ MoreIdle
    /\ \E commits \in InitialHistories :
           /\ hist = [HistIdle EXCEPT !.commits = commits, !.next_hash = Len(commits) + 1]
           /\ doc = IF commits = <<>> THEN DocumentStateNew(<<>>)
                    ELSE reset(DocumentStateNew(<<>>), commits[1].content)
           /\ last_event = DocumentUpdate(doc)

\* trip once a command other than a rollback has been handled
TripBroken(h) == [h EXCEPT !.trip.stage = "none", !.handled = @ + 1]

\* PipelineCommand::UpdateDocument with a recording (pipeline/mod.rs:348-386):
\* the document is reset to the editor's content, which is written and
\* committed
ManualEditCommitted(new_content) ==
    /\ hist.handled < MaxHistoryCmds
    /\ hist.next_hash <= Len(HashNames)
    /\ doc' = reset(doc, new_content)
    /\ hist' = TripBroken(commit_document(hist, new_content))
    /\ UNCHANGED <<last_op, ops, pipeVars, edit, planner, turn, repo, holdback, upd, agg, rt, moreVars>>

\* PipelineCommand::RollbackToCommit (pipeline/mod.rs:409-433).  trip notes a
\* rollback handled while the document is what HEAD holds, and the rollback
\* to that HEAD when it is the very next command.
RollbackToCommit(commit_hash) ==
    /\ hist.handled < MaxHistoryCmds
    /\ current_recording_id # "none"
    /\ \E r \in {rollback(hist.commits, commit_hash)} :
       \E d \in {IF r.ok THEN Restore(doc, r.content) ELSE doc} :
           /\ doc' = d
           /\ last_event' = IF r.ok THEN DocumentUpdate(d) ELSE last_event
           /\ hist' = [hist EXCEPT
                          !.handled = @ + 1,
                          !.trip =
                              IF hist.trip.stage = "out" /\ commit_hash = hist.trip.head
                              THEN [@ EXCEPT !.stage = "back", !.after = d]
                              ELSE IF hist.commits # <<>>
                                      /\ doc.content = hist.commits[1].content
                              THEN [stage |-> "out", head |-> hist.commits[1].hash,
                                    pre |-> doc, mid |-> d, after |-> d]
                              ELSE [@ EXCEPT !.stage = "none"]]
    /\ UNCHANGED <<last_op, ops, asr_cancellation_token, processing_cancellation_token,
                   is_paused, current_recording_id, holdback_deadline, pending_transcript,
                   tasks, cmds, edit, planner, turn, repo, holdback, upd, agg, rt, moreVars>>

\* UndoAgent::execute up to its model call (undo_agent.rs:18-46): the newest
\* ten commits are read; with fewer than two the step returns
UndoBegin ==
    /\ hist.undo.pc = "idle"
    /\ \E commits \in {get_history_with_hashes(hist.commits, 10)} :
           hist' = [hist EXCEPT !.trip.stage = "none",
                                !.undo = IF Len(commits) >= 2
                                         THEN [UndoIdle EXCEPT !.pc = "called", !.commits = commits]
                                         ELSE [UndoIdle EXCEPT !.pc = "done", !.commits = commits,
                                                               !.after = doc]]
    /\ UNCHANGED <<docVars, pipeVars, edit, planner, turn, repo, holdback, upd, agg, rt, moreVars>>

\* the model has answered and the rollback is made (undo_agent.rs:49-84)
UndoCall(answered, output) ==
    /\ hist.undo.pc = "called"
    /\ \E clean_hash \in {CleanHash(hist.undo.commits, answered, output)} :
       \E r \in {rollback(hist.commits, clean_hash)} :
       \E d \in {IF r.ok THEN Restore(doc, r.content) ELSE doc} :
           /\ doc' = d
           /\ last_event' = IF r.ok THEN DocumentUpdate(d) ELSE last_event
           /\ hist' = [hist EXCEPT !.undo.pc = "done", !.undo.answered = answered,
                                   !.undo.output = IF answered THEN output ELSE <<>>,
                                   !.undo.clean_hash = clean_hash,
                                   !.undo.restored = r.ok, !.undo.after = d]
    /\ UNCHANGED <<last_op, ops, asr_cancellation_token, processing_cancellation_token,
                   is_paused, current_recording_id, holdback_deadline, pending_transcript,
                   tasks, cmds, edit, planner, turn, repo, holdback, upd, agg, rt, moreVars>>

NextHistory ==
    \/ \E c \in HistoryManualContents : ManualEditCommitted(c)
    \/ \E commit_hash \in RollbackHashes : RollbackToCommit(commit_hash)
    \/ UndoBegin
    \/ \E answered \in BOOLEAN, output \in UndoOutputs : UndoCall(answered, output)

SpecHistory == InitHistory /\ [][NextHistory]_vars

(***************************************************************************)
(* Properties of the rollbacks                                             *)
(***************************************************************************)

UsableTarget(u) ==
    /\ u.answered
    /\ Trim(u.output) # <<>>
    /\ FirstWord(Trim(u.output)) \in Hashes(u.commits)

\* C27: when at least two commits exist and the model does not yield a usable
\* target hash (the call fails, the output is empty, or the returned hash is
\* not a commit of the history), the UNDO agent rolls the document back to
\* the commit immediately preceding HEAD.
C27_UndoFallsBackToPreviousCommit ==
    (hist.undo.pc = "done" /\ Len(hist.undo.commits) >= 2 /\ ~UsableTarget(hist.undo))
        => /\ hist.undo.restored
           /\ hist.undo.after.content = hist.undo.commits[2].content

(***************************************************************************)
(* SpecParse: one (search, replace) pair written as a canonical block and  *)
(* read back by DiffParser::parse_all                                      *)
(***************************************************************************)

\* lines of one side of a pair
MaxPairLines == 2

\* lines of a search text: plain, with a trailing blank, empty, and one whose
\* carriage return hides a separator
SearchPairLines ==
    { <<"a">>, <<"a", " ">>, <<>>, <<"a", "\r", "=", "=", "=">> }

\* lines of a replace text: indented, with a trailing blank, empty, one that
\* holds the canonical separator without being a separator line, and a
\* separator line
ReplacePairLines ==
    { <<" ", "x">>, <<"x", " ">>, <<>>, <<"x">> \o CanonSeparator, <<"=", "=", "=">> }

PairBodies(lineSet) == UNION { [1..k -> lineSet] : k \in 0..MaxPairLines }

RECURSIVE PairText(_)
\* the text of one side: its lines with "\n" between them
PairText(ls) ==
    IF ls = <<>> THEN <<>>
    ELSE IF Len(ls) = 1 THEN ls[1]
    ELSE Head(ls) \o <<"\n">> \o PairText(Tail(ls))

\* a line one of the three marker tests of process_line accepts
MarkerLine(line) ==
    \/ is_search_marker_line(Trim(line))
    \/ is_separator_line(Trim(line))
    \/ is_replace_marker_line(Trim(line))

\* no line of the body is a marker or separator line
NoMarkerLine(ls) == \A i \in DOMAIN ls : ~MarkerLine(ls[i])

RECURSIVE TrimNewlines(_)
\* the text without its trailing "\n"s
TrimNewlines(s) ==
    IF s # <<>> /\ s[Len(s)] = "\n" THEN TrimNewlines(SubSeq(s, 1, Len(s) - 1)) ELSE s

\* the text as parse_all reads it: CR and CRLF are line ends
ReadText(ls) == NormalizeNewlines(PairText(ls))

\* a pair parse_all is meant to hand back: no line it reads is a marker or
\* separator line, and the replace text holds none of the canonical markers
CleanPair(search_lines, replace_lines) ==
    /\ NoMarkerLine(SplitInclusive(ReadText(search_lines)))
    /\ NoMarkerLine(SplitInclusive(ReadText(replace_lines)))
    /\ ~replace_has_markers([search_block  |-> ReadText(search_lines),
                             replace_block |-> ReadText(replace_lines)])

InitParse ==
    /\ doc = DocumentStateNew(<<>>)
    /\ last_op = NoOp
    /\ ops = 0
    /\ PipelineReady
    /\ edit = EditIdle
    /\ AuxIdle

\* the pair written as one block with the canonical markers
WriteBlock(search_lines, replace_lines) ==
    /\ rt.pc = "idle"
    /\ rt' = [rt EXCEPT !.pc = "written",
                        !.search_lines = search_lines,
                        !.replace_lines = replace_lines,
                        !.text = Block(CanonStyle, search_lines, replace_lines)]
    /\ UNCHANGED <<docVars, pipeVars, edit, planner, turn, repo, holdback, upd, hist, agg, moreVars>>

\* DiffParser::parse_all on the block
ParseAll ==
    /\ rt.pc = "written"
    /\ rt' = [rt EXCEPT !.pc = "parsed", !.patches = parse_all(rt.text)]
    /\ UNCHANGED <<docVars, pipeVars, edit, planner, turn, repo, holdback, upd, hist, agg, moreVars>>

NextParse ==
    \/ \E sl \in PairBodies(SearchPairLines), rl \in PairBodies(ReplacePairLines) :
           WriteBlock(sl, rl)
    \/ ParseAll

SpecParse == InitParse /\ [][NextParse]_vars

\* C28 as stated: a pair without marker or separator lines, written as one
\* canonical block, parses back to exactly one patch holding the search and
\* the replace text without their trailing newlines.
C28_RoundTripUpToNewlines ==
    (rt.pc = "parsed" /\ NoMarkerLine(rt.search_lines) /\ NoMarkerLine(rt.replace_lines))
        => rt.patches = <<[search_block  |-> TrimNewlines(PairText(rt.search_lines)),
                           replace_block |-> TrimNewlines(PairText(rt.replace_lines))]>>

\* C28 amended: with CR and CRLF read as line ends, a pair none of whose
\* lines is a marker or separator line and whose replace text holds none of
\* the canonical markers parses back to exactly one patch holding the search
\* and the replace text without their trailing whitespace.
C28_ParserRoundTrip ==
    (rt.pc = "parsed" /\ CleanPair(rt.search_lines, rt.replace_lines))
        => rt.patches = <<[search_block  |-> TrimEnd(ReadText(rt.search_lines)),
                           replace_block |-> TrimEnd(ReadText(rt.replace_lines))]>>

\* a clean pair of two lines a side came back as one patch of two lines a side
C28_Witness ==
    /\ rt.pc = "parsed"
    /\ CleanPair(rt.search_lines, rt.replace_lines)
    /\ Len(rt.patches) = 1
    /\ Contains(rt.patches[1].search_block, <<"a", "\n", "a">>)
    /\ Contains(rt.patches[1].replace_block, <<"x", "\n", " ", "x">>)

(***************************************************************************)
(* SpecSpeech: SpeechAggregator (pipeline/types.rs): fragments pushed one  *)
(* after the other, then the flush of the scheduler                        *)
(***************************************************************************)

\* pub const MIN_SPEECH_CHARS
MIN_SPEECH_CHARS == 40
\* pub const MAX_SPEECH_CHARS
MAX_SPEECH_CHARS == 500
\* push calls before the flush
MaxPushes == 3

\* fn char_len
char_len(s) == Len(s)

\* the characters split_long_speech cuts after; the full-width ones are
\* written by their code points
SplitChars == {"U+3002", "U+FF01", "U+FF1F", ".", "!", "?", ";", "U+FF1B", "\n"}

\* the characters push takes for the end of a sentence
PunctChars == {"U+3002", "U+FF01", "U+FF1F", ".", "!", "?"}

\* String::ends_with over the six characters of push
ends_with_punct(buf) == buf # <<>> /\ buf[Len(buf)] \in PunctChars

\* buf.trim(), kept when not empty
TrimmedPiece(s) == IF Trim(s) = <<>> THEN <<>> ELSE <<Trim(s)>>

RECURSIVE SplitFrom(_, _)
\* the loop of split_long_speech over the characters after position p, the
\* last cut: buf is cut after the first character that is in SplitChars or
\* that brings it to MAX_SPEECH_CHARS characters; what is left is the tail
SplitFrom(t, p) ==
    IF p >= Len(t) THEN <<>>
    ELSE LET last == IF p + MAX_SPEECH_CHARS < Len(t) THEN p + MAX_SPEECH_CHARS ELSE Len(t)
             cuts == { k \in (p + 1)..last :
                         t[k] \in SplitChars \/ k - p >= MAX_SPEECH_CHARS }
         IN  IF cuts = {} THEN TrimmedPiece(SubSeq(t, p + 1, Len(t)))
             ELSE LET k == CHOOSE c \in cuts : \A d \in cuts : c <= d
                  IN  TrimmedPiece(SubSeq(t, p + 1, k)) \o SplitFrom(t, k)

\* fn split_long_speech
split_long_speech(s) ==
    LET t == Trim(s)
    IN  IF t = <<>> THEN <<>>
        ELSE IF char_len(t) <= MAX_SPEECH_CHARS THEN <<t>>
        ELSE SplitFrom(t, 0)

\* SpeechAggregator::flush: the text returned and the buffer after it
flush(buf) == [text |-> Trim(buf), buf |-> <<>>]

\* SpeechAggregator::push: the buffer after it, the text it flushed ahead of
\* a long chunk, and the input of the split_long_speech call it made (<<>>
\* when it made none); it returns the text flushed and then the pieces of
\* that call
push(buf, raw) ==
    LET chunk == Trim(raw)
    IN  IF chunk = <<>> THEN [buf |-> buf, flushed |-> <<>>, input |-> <<>>]
        ELSE IF char_len(chunk) > MAX_SPEECH_CHARS
        THEN IF char_len(buf) >= MIN_SPEECH_CHARS
             THEN [buf |-> flush(buf).buf, flushed |-> <<flush(buf).text>>, input |-> chunk]
             ELSE [buf |-> buf, flushed |-> <<>>, input |-> chunk]
        ELSE LET merged == (IF buf # <<>> THEN buf \o <<" ">> ELSE buf) \o chunk
                 should_flush ==
                     \/ char_len(merged) >= MIN_SPEECH_CHARS /\ ends_with_punct(merged)
                     \/ char_len(merged) >= MAX_SPEECH_CHARS
             IN  IF should_flush
                 THEN [buf |-> flush(merged).buf, flushed |-> <<>>,
                       input |-> flush(merged).text]
                 ELSE [buf |-> merged, flushed |-> <<>>, input |-> <<>>]

RECURSIVE Letters(_, _)
\* n times the character ch
Letters(ch, n) ==
    IF n <= 0 THEN <<>>
    ELSE IF n = 1 THEN <<ch>>
    ELSE Letters(ch, n \div 2) \o Letters(ch, n - (n \div 2))

\* the letter the n-th fragment is spoken in
FragmentLetters == <<"a", "b", "c", "d", "e">>

\* fragments of the recogniser in the letter ch: a word, a sentence of
\* MIN_SPEECH_CHARS characters, a blank, a run without a full stop, half a
\* long run, a long run of words without punctuation, a long run with a
\* full stop in the middle
SpokenFragments(ch) ==
    { <<ch>>,
      Letters(ch, MIN_SPEECH_CHARS - 1) \o <<".">>,
      <<" ">>,
      Letters(ch, MIN_SPEECH_CHARS + 5),
      Letters(ch, 300),
      Letters(ch, MAX_SPEECH_CHARS - 2) \o <<" ", ch, ch, ch>>,
      Letters(ch, 300) \o <<".">> \o Letters(ch, 300) }

InitSpeech ==
    /\ doc = DocumentStateNew(<<>>)
    /\ last_op = NoOp
    /\ ops = 0
    /\ PipelineReady
    /\ edit = EditIdle
    /\ AuxIdle

\* speech_agg.push(fragment)
Push(raw) ==
    /\ agg.pc = "idle"
    /\ Len(agg.pushed) < MaxPushes
    /\ \E r \in {push(agg.buf, raw)} :
       \E pieces \in {split_long_speech(r.input)} :
           agg' = [agg EXCEPT !.buf = r.buf,
                              !.pushed = agg.pushed \o <<raw>>,
                              !.out = agg.out \o r.flushed \o pieces,
                              !.split = [input |-> r.input, pieces |-> pieces]]
    /\ UNCHANGED <<docVars, pipeVars, edit, planner, turn, repo, holdback, upd, hist, rt, moreVars>>

\* speech_agg.flush() (pipeline/mod.rs:618)
Flush ==
    /\ agg.pc = "idle"
    /\ \E f \in {flush(agg.buf)} :
           agg' = [agg EXCEPT !.pc = "flushed",
                              !.buf = f.buf,
                              !.out = agg.out \o <<f.text>>,
                              !.split = [input |-> <<>>, pieces |-> <<>>]]
    /\ UNCHANGED <<docVars, pipeVars, edit, planner, turn, repo, holdback, upd, hist, rt, moreVars>>

NextSpeech ==
    \/ \E raw \in SpokenFragments(FragmentLetters[Len(agg.pushed) + 1]) : Push(raw)
    \/ Flush

SpecSpeech == InitSpeech /\ [][NextSpeech]_vars

\* the character c occurs in s
Has(s, c) == \E n \in DOMAIN s : s[n] = c

\* C29: text of a later fragment is never among the pieces emitted while
\* text of an earlier fragment is still held in the buffer.
C29_FifoEmission ==
    \A i, j \in DOMAIN FragmentLetters :
        (i < j /\ Has(agg.buf, FragmentLetters[i]))
            => \A k \in DOMAIN agg.out : ~Has(agg.out[k], FragmentLetters[j])

\* C30: when split_long_speech is given more than MAX_SPEECH_CHARS
\* characters, every piece but the one that ends the input ends with one of
\* the sentence boundary characters.
C30_NoCutInsideWord ==
    char_len(agg.split.input) > MAX_SPEECH_CHARS
        => \A i \in 1..(Len(agg.split.pieces) - 1) :
               LET piece == agg.split.pieces[i]
               IN  piece[Len(piece)] \in SplitChars

(***************************************************************************)
(* Properties of one EDIT response, of the GREP step and of apply_patch    *)
(***************************************************************************)

\* C31: a response one of whose patches fails with NotFound makes
\* process_stream_chunk return an error and leaves the content and the
\* version of the document as they were before the call.
C31_FailedResponseKeepsDocument ==
    (last_op.op = "process_stream_chunk" /\ last_op.ret = "Err")
        => doc = last_op.before

\* the span (start, end] of d is the first exact occurrence of s
ExactSpan(d, s, start, end) ==
    /\ end = start + Len(s)
    /\ SubSeq(d, start + 1, end) = s
    /\ \A k \in 0..(start - 1) : SubSeq(d, k + 1, k + Len(s)) # s

\* position p of d is where a line begins
LineStart(d, p) == p = 0 \/ d[p] = "\n"

\* position p of d is where a line ends, before its terminator
LineEnd(d, p) ==
    \/ p = Len(d)
    \/ d[p + 1] = "\n"
    \/ p + 2 <= Len(d) /\ d[p + 1] = "\r" /\ d[p + 2] = "\n"

\* the span (start, end] of d is a run of whole lines equal, line by line
\* after trimming, to the lines of s
SameLines(d, s, start, end) ==
    LET span == Lines(SubSeq(d, start + 1, end))
        sl   == Lines(s)
    IN  /\ LineStart(d, start)
        /\ LineEnd(d, end)
        /\ sl # <<>>
        /\ Len(span) = Len(sl)
        /\ \A j \in 1..Len(sl) : Trim(span[j]) = Trim(sl[j])

\* the span (start, end] of d is the first such run, without the terminator
\* of its last line
LineSpan(d, s, start, end) ==
    /\ SameLines(d, s, start, end)
    /\ (end = start \/ d[end] # "\n")
    /\ \A k \in 0..(start - 1) : \A e \in k..Len(d) : ~SameLines(d, s, k, e)

C39_EmptySearchRejected ==
    ( /\ last_op.op = "process_stream_chunk"
      /\ last_op.patches # <<>>
      /\ last_op.patches[1].search_block = <<>> )
        => (last_op.ret = "Err" /\ doc = last_op.before)

(***************************************************************************)
(* SpecGrep: one run of GrepAgent::execute, with manual edits of the       *)
(* document handled by the scheduler on another thread of the runtime      *)
(***************************************************************************)

GrepDocs == { <<"a">>, <<"a", "a">>, <<"c">>, <<"a", "c">> }

GrepManualContents == { <<"a", "b">>, <<"b">> }

InitGrep ==
    /\ \E c \in GrepDocs : doc = reset(DocumentStateNew(<<>>), c)
    /\ last_op = NoOp
    /\ ops = 0
    /\ PipelineReady
    /\ edit = EditIdle
    /\ planner = PlannerIdle
    /\ turn = TurnIdle
    /\ repo = RepoIdle
    /\ holdback = HoldbackIdle
    /\ upd = UpdIdle
    /\ hist = HistIdle
    /\ agg = AggIdle
    /\ rt = RtIdle
    /\ TailIdle
    /\ lp = LpIdle
    /\ grep = [GrepIdle EXCEPT !.pc = "call"]

\* the stream of the coder model collected into response; a failed call
\* returns from execute
GrepCall(answered, response) ==
    /\ grep.pc = "call"
    /\ grep' = [grep EXCEPT !.pc = IF answered THEN "read" ELSE "done",
                            !.response = IF answered THEN response ELSE <<>>]
    /\ UNCHANGED <<docVars, pipeVars, edit, planner, turn, repo, holdback, upd, hist, agg, rt, lp, tailVars>>

\* let latest_doc = ctx.doc_service.get_snapshot().content
GrepRead ==
    /\ grep.pc = "read"
    /\ grep' = [grep EXCEPT !.pc = "write", !.latest_doc = doc.content]
    /\ UNCHANGED <<docVars, pipeVars, edit, planner, turn, repo, holdback, upd, hist, agg, rt, lp, tailVars>>

\* the replacement computed on latest_doc and stored with reset when it
\* differs from latest_doc
GrepWrite ==
    /\ grep.pc = "write"
    /\ \E g \in {grep_parse(Lines(grep.response), [find |-> <<>>, replace |-> <<>>])} :
       \E new_doc \in {IF g.find # <<>>
                       THEN ReplaceAll(grep.latest_doc, g.find, g.replace)
                       ELSE grep.latest_doc} :
           /\ doc' = IF new_doc # grep.latest_doc THEN reset(doc, new_doc) ELSE doc
           /\ last_event' = IF new_doc # grep.latest_doc THEN DocumentUpdate(doc') ELSE last_event
           /\ grep' = [grep EXCEPT !.pc = "done", !.at_write = doc.content,
                                   !.wrote = (new_doc # grep.latest_doc)]
    /\ UNCHANGED <<last_op, ops, asr_cancellation_token, processing_cancellation_token,
                   is_paused, current_recording_id, holdback_deadline, pending_transcript,
                   tasks, cmds, edit, planner, turn, repo, holdback, upd, hist, agg, rt, lp, tailVars>>

\* PipelineCommand::UpdateDocument handled while the agent runs
GrepManualEdit(new_content) ==
    /\ grep.pc \in {"call", "read", "write"}
    /\ grep.edits < MaxManualEdits
    /\ doc' = reset(doc, new_content)
    /\ grep' = [grep EXCEPT !.edits = @ + 1]
    /\ UNCHANGED <<last_op, ops, pipeVars, edit, planner, turn, repo, holdback, upd, hist, agg, rt, lp, tailVars>>

NextGrep ==
    \/ \E answered \in BOOLEAN, response \in GrepResponses : GrepCall(answered, response)
    \/ GrepRead
    \/ GrepWrite
    \/ \E c \in GrepManualContents : GrepManualEdit(c)

SpecGrep == InitGrep /\ [][NextGrep]_vars

\* C32: the content a GREP step stores is the replacement applied to the
\* content the document has at the moment of the write.
C32_GrepWritesOnCurrentDocument ==
    (grep.pc = "done" /\ grep.wrote)
        => LET g == grep_parse(Lines(grep.response), [find |-> <<>>, replace |-> <<>>])
           IN  doc.content = ReplaceAll(grep.at_write, g.find, g.replace)

(***************************************************************************)
(* SpecLines: one response read by DiffParser line by line, as parse_all   *)
(* does, and then applied with process_stream_chunk                        *)
(***************************************************************************)

\* lines of one response
MaxResponseLines == 5

\* a SEARCH marker, a separator, a REPLACE marker, a line of text
ResponseLineSet ==
    { <<"<", "<", "<", " ", "SEARCH">>, <<"=", "=", "=">>,
      <<">", ">", ">", " ", "REPLACE">>, <<"a">> }

ResponseTexts ==
    { PairText(ls) : ls \in UNION { [1..k -> ResponseLineSet] : k \in 0..MaxResponseLines } }

InitLines ==
    /\ doc = reset(DocumentStateNew(<<>>), <<"a">>)
    /\ last_op = NoOp
    /\ ops = 0
    /\ PipelineReady
    /\ edit = EditIdle
    /\ planner = PlannerIdle
    /\ turn = TurnIdle
    /\ repo = RepoIdle
    /\ holdback = HoldbackIdle
    /\ upd = UpdIdle
    /\ hist = HistIdle
    /\ agg = AggIdle
    /\ rt = RtIdle
    /\ TailIdle
    /\ grep = GrepIdle
    /\ \E text \in ResponseTexts :
           lp = [LpIdle EXCEPT !.pc = "lines", !.text = text,
                               !.rest = SplitInclusive(NormalizeNewlines(text))]

\* one turn of the loop of parse_all: process_line on the next line, the
\* patch kept unless its REPLACE text holds a canonical marker
ProcessLine ==
    /\ lp.pc = "lines"
    /\ lp.rest # <<>>
    /\ \E r \in {process_line(lp.parser, Head(lp.rest))} :
           lp' = [lp EXCEPT !.rest = Tail(lp.rest),
                            !.fed = Append(lp.fed, Head(lp.rest)),
                            !.parser = r.parser,
                            !.patches = IF r.patch # <<>> /\ ~replace_has_markers(r.patch[1])
                                        THEN lp.patches \o r.patch ELSE lp.patches]
    /\ UNCHANGED <<docVars, pipeVars, edit, planner, turn, repo, holdback, upd, hist, agg, rt, grep, tailVars>>

\* DocumentService::process_stream_chunk on the whole response
ApplyResponse ==
    /\ lp.pc = "lines"
    /\ lp.rest = <<>>
    /\ ProcessStreamChunkCall([text |-> lp.text, replace_lines |-> <<>>])
    /\ lp' = [lp EXCEPT !.pc = "applied"]
    /\ UNCHANGED <<pipeVars, edit, planner, turn, repo, holdback, upd, hist, agg, rt, grep, tailVars>>

NextLines == ProcessLine \/ ApplyResponse

SpecLines == InitLines /\ [][NextLines]_vars

\* the lines hold a SEARCH marker, then a separator, then a REPLACE marker
HasCompleteBlock(lines) ==
    \E i, j, k \in DOMAIN lines :
        /\ i < j /\ j < k
        /\ is_search_marker_line(Trim(lines[i]))
        /\ is_separator_line(Trim(lines[j]))
        /\ is_replace_marker_line(Trim(lines[k]))

\* the three moves of the parser
ParserCycle == { <<"Idle", "InSearch">>, <<"InSearch", "InReplace">>, <<"InReplace", "Idle">> }

\* patches come from blocks with the three markers in order, and a response
\* without such a block leaves the document as it was, with Ok(false)
ParserEmitsForBlocksOnly ==
    /\ lp.patches # <<>> => HasCompleteBlock(lp.fed)
    /\ lp.pc = "applied" => last_op.patches = lp.patches
    /\ (lp.pc = "applied" /\ ~HasCompleteBlock(lp.fed))
           => (last_op.ret = "Ok(false)" /\ doc = last_op.before)

\* the parser moves along its cycle only, leaves Idle on a SEARCH marker
\* only, and emits a patch only when a REPLACE marker takes it from
\* InReplace to Idle
ParserStep ==
    /\ lp'.parser.state # lp.parser.state
           => <<lp.parser.state, lp'.parser.state>> \in ParserCycle
    /\ (lp.parser.state = "Idle" /\ lp'.fed # lp.fed
           /\ ~is_search_marker_line(Trim(lp'.fed[Len(lp'.fed)])))
           => (lp'.parser = lp.parser /\ lp'.patches = lp.patches)
    /\ lp'.patches # lp.patches
           => /\ lp.parser.state = "InReplace"
              /\ lp'.parser.state = "Idle"
              /\ is_replace_marker_line(Trim(lp'.fed[Len(lp'.fed)]))

\* C34: DiffParser follows Idle, InSearch, InReplace, Idle and emits a patch
\* only for a block with a SEARCH marker, a separator and a REPLACE marker in
\* that order; an unterminated trailing block and the text outside blocks
\* yield no patch, and a response without a complete block leaves the
\* document unchanged, process_stream_chunk returning Ok(false).
C34_ParserProtocol == []ParserEmitsForBlocksOnly /\ [][ParserStep]_vars

\* a line of text, then a complete block applied to the document, then a
\* block that is never closed
C34_Witness ==
    /\ lp.pc = "applied"
    /\ Len(lp.fed) = 5
    /\ ~is_search_marker_line(Trim(lp.fed[1]))
    /\ Len(lp.patches) = 1
    /\ lp.parser.state = "InSearch"
    /\ last_op.ret = "Ok(true)"

(***************************************************************************)
(* Properties of the scheduler: turns and the session                      *)
(***************************************************************************)

\* C35: a turn-task is spawned only while the session is recording, neither
\* paused nor stopped.
C35_NoTurnWhilePausedOrStopped ==
    [][Len(tasks') > Len(tasks) => (asr_cancellation_token /\ ~is_paused)]_vars

(***************************************************************************)
(* SpecProcess: one turn of process_transcript, seen through the           *)
(* agent-status events it emits and through the chat history               *)
(*   pipeline/transcript_processor.rs: process_transcript (26-348)         *)
(*   pipeline/utils.rs: emit_update, emit_and_save (8-40)                  *)
(*   pipeline/mod.rs: ResetDocument (296-302), LoadRecording (477-483)     *)
(* proc.status is the last agent-status event the turn itself emitted,     *)
(* proc.chat_history the blackboard's copy of the history, proc.history    *)
(* the history shared across turns. A message is a record of its role and  *)
(* of the turn that wrote it: "this" turn or an "earlier" one.             *)
(* proc.before_clear holds the turns that had started when the shared      *)
(* history was last cleared.                                               *)
(***************************************************************************)

\* the largest number of clearing commands the scheduler handles during a turn
MaxClearCmds == 1

Message(role, t) == [role |-> role, turn |-> t]

\* the two chat_history.push calls of an agent, made by turn t
PushExchangeOf(h, t) == h \o << Message("user", t), Message("assistant", t) >>

\* the shared history when the turn starts: empty, or full after three turns
ProcHistories ==
    { <<>>, PushExchangeOf(PushExchangeOf(PushExchangeOf(<<>>, "earlier"), "earlier"), "earlier") }

ProcIntents == {"Append", "Edit", "Grep", "Undo", "Clear", "NoOp"}

ProcPlans == UNION { [1..k -> ProcIntents] : k \in 1..MaxPlanSteps }

\* the ways one agent's execute can end
ProcOutcomes(intent) ==
    CASE intent = "Append" -> {"llm_failed", "no_chunk", "blank_chunks", "content"}
      [] intent = "Edit"   -> {"llm_failed", "applied", "unchanged", "failed_after_retries"}
      [] intent = "Grep"   -> {"llm_failed", "no_find", "no_match", "changed"}
      [] intent = "Undo"   -> {"no_path", "few_commits", "rollback_failed", "restored"}
      [] intent = "Clear"  -> {"cleared"}
      [] intent = "NoOp"   -> {"skipped"}

\* does the step emit agent-status "idle": through emit_and_save for every
\* chunk of an APPEND stream (append_agent.rs:100), for an applied EDIT
\* (edit_agent.rs:113) and for a GREP that changed the document
\* (grep_agent.rs:100); through emit_update for a restored UNDO
\* (undo_agent.rs:62) and for CLEAR (clear_agent.rs:22); directly in the
\* NO-OP arm of a one-step plan (transcript_processor.rs:264-269)
EmitsIdle(intent, outcome, plan_len) ==
    \/ intent = "Append" /\ outcome \in {"blank_chunks", "content"}
    \/ intent = "Edit" /\ outcome = "applied"
    \/ intent = "Grep" /\ outcome = "changed"
    \/ intent = "Undo" /\ outcome = "restored"
    \/ intent = "Clear"
    \/ intent = "NoOp" /\ plan_len = 1

\* does the step push its exchange onto the blackboard's history
\* (append_agent.rs:109-125, edit_agent.rs:200-202, grep_agent.rs:98-115,
\* undo_agent.rs:77-78, clear_agent.rs:43-44, transcript_processor.rs:265-267)
PushesExchange(intent, outcome, plan_len) ==
    \/ intent = "Append" /\ outcome = "content"
    \/ intent = "Edit" /\ outcome \in {"applied", "unchanged"}
    \/ intent = "Grep" /\ outcome = "changed"
    \/ intent = "Undo" /\ outcome = "restored"
    \/ intent = "Clear"
    \/ intent = "NoOp" /\ plan_len = 1

\* the blackboard's history after the step: AppendAgent, EditAgent and
\* GrepAgent drain it to max_history after their push, the others do not
HistoryAfterStep(h, intent, outcome, plan_len) ==
    IF ~PushesExchange(intent, outcome, plan_len) THEN h
    ELSE IF intent \in {"Append", "Edit", "Grep"}
         THEN Truncate(PushExchangeOf(h, "this"), max_history)
         ELSE PushExchangeOf(h, "this")

ProcInFlight == proc.pc \in {"begun", "planned", "loop"}

InitProcess ==
    /\ doc = DocumentStateNew(<<>>)
    /\ last_op = NoOp
    /\ ops = 0
    /\ PipelineReady
    /\ edit = EditIdle
    /\ planner = PlannerIdle
    /\ turn = TurnIdle
    /\ repo = RepoIdle
    /\ holdback = HoldbackIdle
    /\ upd = UpdIdle
    /\ hist = HistIdle
    /\ agg = AggIdle
    /\ rt = RtIdle
    /\ grep = GrepIdle
    /\ lp = LpIdle
    /\ naming = NamingIdle
    /\ sse = SseIdle
    /\ \E h \in ProcHistories : proc = [ProcIdle EXCEPT !.history = h]

\* process_transcript up to the routers (transcript_processor.rs:41-71):
\* "thinking" is emitted, and a document holding tabs is normalised and
\* announced with emit_update, which emits "idle"
ProcBegin(has_tabs) ==
    /\ proc.pc = "idle"
    /\ proc' = [proc EXCEPT !.pc = "begun",
                            !.status = IF has_tabs THEN "idle" ELSE "thinking"]
    /\ UNCHANGED <<docVars, pipeVars, edit, planner, turn, repo, holdback, upd, hist, agg,
                   rt, grep, lp, naming, sse>>

\* the routers and the gathering stage (transcript_processor.rs:73-222): the
\* plan is the router's, or a single APPEND for an empty document
ProcPlan(routed, doc_empty) ==
    /\ proc.pc = "begun"
    /\ proc' = [proc EXCEPT !.pc = "planned",
                            !.plan = IF doc_empty THEN <<"Append">> ELSE routed]
    /\ UNCHANGED <<docVars, pipeVars, edit, planner, turn, repo, holdback, upd, hist, agg,
                   rt, grep, lp, naming, sse>>

\* AgentContext::new with history.read().await.clone()
\* (transcript_processor.rs:223-243)
ProcContext ==
    /\ proc.pc = "planned"
    /\ proc' = [proc EXCEPT !.pc = "loop", !.chat_history = proc.history]
    /\ UNCHANGED <<docVars, pipeVars, edit, planner, turn, repo, holdback, upd, hist, agg,
                   rt, grep, lp, naming, sse>>

\* one pass of the step loop (transcript_processor.rs:247-282): no agent
\* returns Err, so the loop always goes on to the next step
ProcStep(outcome) ==
    /\ proc.pc = "loop"
    /\ proc.current_step < Len(proc.plan)
    /\ LET intent == proc.plan[proc.current_step + 1]
           n == Len(proc.plan)
       IN  /\ outcome \in ProcOutcomes(intent)
           /\ proc' = [proc EXCEPT
                          !.current_step = @ + 1,
                          !.outcomes = Append(@, outcome),
                          !.status = IF EmitsIdle(intent, outcome, n) THEN "idle" ELSE @,
                          !.chat_history = HistoryAfterStep(@, intent, outcome, n)]
    /\ UNCHANGED <<docVars, pipeVars, edit, planner, turn, repo, holdback, upd, hist, agg,
                   rt, grep, lp, naming, sse>>

\* the write-back of the blackboard's history, cut to MAX_HISTORY under the
\* same write lock (transcript_processor.rs:288-298)
ProcWriteBack ==
    /\ proc.pc = "loop"
    /\ proc.current_step = Len(proc.plan)
    /\ proc' = [proc EXCEPT !.pc = "done",
                            !.history = Truncate(proc.chat_history, MAX_HISTORY)]
    /\ UNCHANGED <<docVars, pipeVars, edit, planner, turn, repo, holdback, upd, hist, agg,
                   rt, grep, lp, naming, sse>>

\* the turn's token is cancelled: the select! around process_transcript drops
\* the turn at its next await (mod.rs:652-656)
ProcCancel ==
    /\ ProcInFlight
    /\ proc' = [proc EXCEPT !.pc = "cancelled"]
    /\ UNCHANGED <<docVars, pipeVars, edit, planner, turn, repo, holdback, upd, hist, agg,
                   rt, grep, lp, naming, sse>>

\* ResetDocument (mod.rs:296-302) or LoadRecording (mod.rs:477-483): the
\* shared history is cleared; the turn in flight is left running
ProcClearHistory(cmd) ==
    /\ proc.cmds < MaxClearCmds
    /\ proc.pc # "cancelled"
    /\ proc' = [proc EXCEPT !.cmds = @ + 1,
                            !.history = <<>>,
                            !.before_clear = IF proc.pc = "idle" THEN {"earlier"} ELSE {"earlier", "this"}]
    /\ UNCHANGED <<docVars, pipeVars, edit, planner, turn, repo, holdback, upd, hist, agg,
                   rt, grep, lp, naming, sse>>

\* the steps process_transcript takes by itself once it has been spawned
ProcRun ==
    \/ \E routed \in ProcPlans, doc_empty \in BOOLEAN : ProcPlan(routed, doc_empty)
    \/ ProcContext
    \/ \E outcome \in UNION { ProcOutcomes(i) : i \in ProcIntents } : ProcStep(outcome)
    \/ ProcWriteBack

NextProcess ==
    \/ \E has_tabs \in BOOLEAN : ProcBegin(has_tabs)
    \/ ProcRun
    \/ ProcCancel
    \/ \E cmd \in {"ResetDocument", "LoadRecording"} : ProcClearHistory(cmd)

SpecProcess == InitProcess /\ [][NextProcess]_vars

\* a spawned turn that is not cancelled keeps running: the runtime polls it
\* and every model call returns or fails
SpecProcessLive == SpecProcess /\ WF_vars(ProcRun)

\* C36: every turn that has emitted agent-status "thinking" and is not
\* cancelled eventually emits agent-status "idle", also when its steps fail
\* or change nothing.
C36_ThinkingLeadsToIdle ==
    (proc.status = "thinking") ~> (proc.status = "idle" \/ proc.pc = "cancelled")

\* C37: the shared chat history never holds more than six messages, and once
\* it has been cleared it never again holds a message written by a turn that
\* had started before the clear.
C37_HistoryBoundedAndFreshAfterClear ==
    /\ Len(proc.history) <= 6
    /\ \A i \in 1..Len(proc.history) : proc.history[i].turn \notin proc.before_clear

(***************************************************************************)
(* SpecNaming: the auto-naming of one recording                            *)
(*   pipeline/transcript_processor.rs: process_transcript (303-344)        *)
(*   pipeline/auto_naming.rs: generate_recording_name (6-50)               *)
(*   commands/recording_commands.rs: get_recording_metadata,               *)
(*     save_recording_metadata (23-40)                                     *)
(* naming.name is the name in the recording's metadata.json, a sequence of *)
(* tokens; naming.generators holds the state of every title generator      *)
(* spawned, naming.renamed the new_name of every recording-renamed event.  *)
(***************************************************************************)

\* the number of turns that complete
MaxNamingTurns == 3

RecId == "rec"

\* the names a recording has when it is created, and one the user gave
NamingNames ==
    { <<"New Recording">>, <<"New Recording", " (", "2", ")">>, <<RecId>>, <<"Notes">> }

\* the titles the model returns
Titles == { <<"T">>, <<"U">> }

\* is_default (transcript_processor.rs:307-309)
is_default(name, rec_id) ==
    \/ name = <<"New Recording">>
    \/ Len(name) >= 2 /\ name[1] = "New Recording" /\ name[2] = " ("
    \/ name = <<rec_id>>

\* the conditions under which the end of a turn spawns a title generator:
\* the document is longer than 150 bytes and the stored name is a default
SpawnsGenerator(n, long) ==
    long /\ is_default(n.name, RecId)

InitNaming ==
    /\ doc = DocumentStateNew(<<>>)
    /\ last_op = NoOp
    /\ ops = 0
    /\ PipelineReady
    /\ edit = EditIdle
    /\ planner = PlannerIdle
    /\ turn = TurnIdle
    /\ repo = RepoIdle
    /\ holdback = HoldbackIdle
    /\ upd = UpdIdle
    /\ hist = HistIdle
    /\ agg = AggIdle
    /\ rt = RtIdle
    /\ grep = GrepIdle
    /\ lp = LpIdle
    /\ proc = ProcIdle
    /\ sse = SseIdle
    /\ \E name \in NamingNames : naming = [NamingIdle EXCEPT !.name = name]

\* the end of process_transcript for a turn of the recording
\* (transcript_processor.rs:303-344): the generator is spawned, not awaited
NamingTurnEnds(long) ==
    /\ naming.turns < MaxNamingTurns
    /\ naming' = [naming EXCEPT
                     !.turns = @ + 1,
                     !.generators = IF SpawnsGenerator(naming, long)
                                    THEN Append(@, "running") ELSE @]
    /\ UNCHANGED <<docVars, pipeVars, edit, planner, turn, repo, holdback, upd, hist, agg,
                   rt, grep, lp, proc, sse>>

\* the spawned task (transcript_processor.rs:319-340): the model answers
\* with a title or fails; a title is saved to the metadata and announced
\* with recording-renamed unless the write fails
NamingGenerated(g, answered, title, saved) ==
    /\ g \in 1..Len(naming.generators)
    /\ naming.generators[g] = "running"
    /\ naming' = [naming EXCEPT
                     !.generators[g] = IF ~answered THEN "failed"
                                       ELSE IF saved THEN "saved" ELSE "save_failed",
                     !.name = IF answered /\ saved THEN title ELSE @,
                     !.renamed = IF answered /\ saved THEN Append(@, title) ELSE @]
    /\ UNCHANGED <<docVars, pipeVars, edit, planner, turn, repo, holdback, upd, hist, agg,
                   rt, grep, lp, proc, sse>>

NextNaming ==
    \/ \E long \in BOOLEAN : NamingTurnEnds(long)
    \/ \E g \in 1..MaxNamingTurns, answered \in BOOLEAN, title \in Titles, saved \in BOOLEAN :
           NamingGenerated(g, answered, title, saved)

SpecNaming == InitNaming /\ [][NextNaming]_vars

\* C38: a recording is auto-named at most once: at most one title generator
\* is started for it and at most one recording-renamed event is emitted,
\* also when several turns complete before the first title has been saved.
C38_AutoNamedAtMostOnce ==
    /\ Len(naming.generators) <= 1
    /\ Len(naming.renamed) <= 1

(***************************************************************************)
(* SpecSse: one streamed response read by stream_completion                *)
(*   services/llm_client.rs: OpenAILikeClient::stream_completion (110-160) *)
(* sse.body is the response body as bytes, sse.chunks the chunks of it the *)
(* network still has to deliver, sse.buf the scan's line buffer and        *)
(* sse.deltas the items yielded so far. A byte is a one-character string;  *)
(* "C3" and "A9" are the two bytes of the character U+00E9. "{" stands for *)
(* the JSON text up to the opening quote of the delta's content and "}"    *)
(* for the text from its closing quote on.                                 *)
(***************************************************************************)

\* the largest number of chunks a body arrives in
MaxBodyChunks == 3

RECURSIVE from_utf8_lossy(_)
\* String::from_utf8_lossy: a byte sequence that is not a whole character
\* becomes U+FFFD
from_utf8_lossy(bytes) ==
    IF bytes = <<>> THEN <<>>
    ELSE IF Head(bytes) = "C3"
         THEN IF Len(bytes) >= 2 /\ bytes[2] = "A9"
              THEN <<"U+00E9">> \o from_utf8_lossy(SubSeq(bytes, 3, Len(bytes)))
              ELSE <<"U+FFFD">> \o from_utf8_lossy(Tail(bytes))
    ELSE IF Head(bytes) = "A9" THEN <<"U+FFFD">> \o from_utf8_lossy(Tail(bytes))
    ELSE <<Head(bytes)>> \o from_utf8_lossy(Tail(bytes))

DataPrefix == <<"d", "a", "t", "a", ":">>

DoneMark == <<"[", "D", "O", "N", "E", "]">>

\* line.strip_prefix("data:"): <<>> for None, else the rest in a sequence
strip_prefix(line, prefix) ==
    IF Len(line) >= Len(prefix) /\ SubSeq(line, 1, Len(prefix)) = prefix
    THEN <<SubSeq(line, Len(prefix) + 1, Len(line))>> ELSE <<>>

\* serde_json::from_str followed by val["choices"][0]["delta"]["content"]
\* .as_str(): <<>> when the text is no JSON value or holds no such string
delta_content_of(data) ==
    LET t == TrimEnd(data)
    IN  IF /\ Len(t) >= 2
           /\ t[1] = "{"
           /\ t[Len(t)] = "}"
           /\ \A i \in 2..(Len(t) - 1) : t[i] \notin {"{", "}", "\n"}
        THEN <<SubSeq(t, 2, Len(t) - 1)>> ELSE <<>>

\* what one complete line adds to delta_content (llm_client.rs:130-151)
line_delta(raw) ==
    LET line == TrimStart(IF raw # <<>> /\ raw[Len(raw)] = "\r"
                          THEN SubSeq(raw, 1, Len(raw) - 1) ELSE raw)
        rest == strip_prefix(line, DataPrefix)
    IN  IF rest = <<>> THEN <<>>
        ELSE IF TrimStart(rest[1]) = DoneMark THEN <<>>
        ELSE LET c == delta_content_of(TrimStart(rest[1]))
             IN  IF c = <<>> THEN <<>> ELSE c[1]

RECURSIVE consume_lines(_, _)
\* the loop `while let Some(nl_idx) = buf.find('\n')` (llm_client.rs:124-152)
consume_lines(buf, delta_content) ==
    LET nl_idx == Find(buf, <<"\n">>)
    IN  IF nl_idx < 0 THEN [buf |-> buf, delta |-> delta_content]
        ELSE consume_lines(SubSeq(buf, nl_idx + 2, Len(buf)),
                           delta_content \o line_delta(SubSeq(buf, 1, nl_idx)))

\* the closure of scan on an Ok chunk (llm_client.rs:117-155)
scan_chunk(buf, bytes) == consume_lines(buf \o from_utf8_lossy(bytes), <<>>)

RECURSIVE scan_all(_, _)
\* the items the stream yields for the chunks given, from the buffer buf
scan_all(buf, chunks) ==
    IF chunks = <<>> THEN <<>>
    ELSE LET r == scan_chunk(buf, Head(chunks))
         IN  <<r.delta>> \o scan_all(r.buf, Tail(chunks))

RECURSIVE Splittings(_, _)
\* the ways of cutting the bytes s into at most k non-empty chunks
Splittings(s, k) ==
    IF k <= 1 \/ Len(s) <= 1 THEN { <<s>> }
    ELSE { <<s>> } \cup
         UNION { { <<SubSeq(s, 1, i)>> \o r : r \in Splittings(SubSeq(s, i + 1, Len(s)), k - 1) }
                 : i \in 1..(Len(s) - 1) }

\* a data line with the content c
DataLine(sep, c, eol) == DataPrefix \o sep \o <<"{">> \o c \o <<"}">> \o eol

\* response bodies: two deltas, one of them with a two-byte character and a
\* CRLF line end; a comment line, an indented data line, the [DONE] line
\* and a last line the server did not terminate
SseBodies ==
    { DataLine(<<" ">>, <<"a">>, <<"\n">>) \o DataLine(<<>>, <<"C3", "A9">>, <<"\r", "\n">>),
      <<":", "\n", " ">> \o DataLine(<<" ">>, <<"b">>, <<"\n">>) \o <<"\n">>
          \o DataPrefix \o <<" ">> \o DoneMark \o <<"\n">> \o DataLine(<<>>, <<"c">>, <<>>) }

InitSse ==
    /\ doc = DocumentStateNew(<<>>)
    /\ last_op = NoOp
    /\ ops = 0
    /\ PipelineReady
    /\ edit = EditIdle
    /\ planner = PlannerIdle
    /\ turn = TurnIdle
    /\ repo = RepoIdle
    /\ holdback = HoldbackIdle
    /\ upd = UpdIdle
    /\ hist = HistIdle
    /\ agg = AggIdle
    /\ rt = RtIdle
    /\ grep = GrepIdle
    /\ lp = LpIdle
    /\ proc = ProcIdle
    /\ naming = NamingIdle
    /\ \E body \in SseBodies : \E chunks \in Splittings(body, MaxBodyChunks) :
           sse = [SseIdle EXCEPT !.body = body, !.chunks = chunks]

\* the network delivers the next chunk and the scan yields one item for it
SseChunk ==
    /\ sse.chunks # <<>>
    /\ \E r \in { scan_chunk(sse.buf, Head(sse.chunks)) } :
           sse' = [sse EXCEPT !.chunks = Tail(@), !.buf = r.buf,
                              !.deltas = Append(@, r.delta)]
    /\ UNCHANGED <<docVars, pipeVars, edit, planner, turn, repo, holdback, upd, hist, agg,
                   rt, grep, lp, proc, naming>>

\* the body is over: scan ends with the byte stream, whatever is left in buf
SseEnd ==
    /\ sse.chunks = <<>>
    /\ ~sse.ended
    /\ sse' = [sse EXCEPT !.ended = TRUE]
    /\ UNCHANGED <<docVars, pipeVars, edit, planner, turn, repo, holdback, upd, hist, agg,
                   rt, grep, lp, proc, naming>>

NextSse ==
    \/ SseChunk
    \/ SseEnd

SpecSse == InitSse /\ [][NextSse]_vars

\* C40: the deltas do not depend on the chunking: however the body is cut
\* into chunks, the concatenation of the deltas yielded is the one the
\* uncut body yields, which holds the delta of every complete data: line.
C40_ChunkingIndependent ==
    sse.ended => Concat(sse.deltas) = Concat(scan_all(<<>>, <<sse.body>>))

====
